---- MODULE Spec2Model ----
(***************************************************************************)
(* A model of the email analysis engine (src/src/lib/email_classifier.py,  *)
(* class EmailAnalyzer), of the rule-based classifier                      *)
(* (src/src/lib/email_classifier_v2.py, class EmailClassifier) and of the  *)
(* risk score composition (src/src/utils/computation.py).                  *)
(*                                                                         *)
(* Text is modelled by what the code asks of it.  An email's subject and   *)
(* content are the set of lowercase phrases that occur in them ("words")   *)
(* plus three fragments the regular expressions look for: a card-number    *)
(* fragment, an amount fragment and a merchant fragment.  `kw in text` is   *)
(* membership of kw in the phrases of the text; a regular expression of a  *)
(* pattern family matches exactly the fragments listed for that family.    *)
(* Money is a whole number of rupees; two-decimal results of round(x, 2)   *)
(* are whole numbers of hundredths.  Dates are day numbers counted from    *)
(* 2024-01-01, tagged with the Python type that carries them.              *)
(***************************************************************************)
EXTENDS Integers, Sequences, FiniteSets, TLC

VARIABLES
    emails,         \* analyze_emails: the batch (a sequence of email dicts)
    pc,             \* analyze_emails: where the call is
    idx,            \* index of the next email of the running loop
    credit_info,    \* analyze_credit_cards: card key -> account, in creation order
    spending_info,  \* analyze_spending: categories and overall accumulators
    now,            \* the wall clock read by datetime.now()
    results,        \* what analyze_emails returned (or the exception it raised)
    prev_results,   \* what the previous analyze_emails call on this batch returned
    run,            \* number of the current analyze_emails call on this batch
    cl_emails,      \* EmailClassifier.process_emails: the batch
    cl_pc,          \* EmailClassifier.process_emails: where the call is
    cl_idx,         \* index of the next email to classify
    cl_results,     \* EmailClassifier.process_emails: the result lists
    sc_pc,          \* calculate_final_score: where the call is
    sc_in,          \* calculate_final_score: its arguments
    sc_out,         \* calculate_final_score: its return value
    rq_pc,          \* bureau_eye_submit: where the call is
    rq_in,          \* bureau_eye_submit: device_data and auth_credential
    rq_dfr,         \* what get_device_insights returned
    rq_out,         \* what bureau_eye_submit returned
    user_evaluation,            \* the user_evaluation collection
    processed_emails,           \* the processed_emails collection: unique_id -> emails
    email_analysis_collection,  \* the analysis records, in insertion order
    response,                   \* what the last email-analysis request returned
    request,                    \* the email-analysis request awaiting analyze_emails
    mi_pc,                      \* _generate_merchant_insights: where the call is
    mi_in,                      \* _generate_merchant_insights: the transactions
    mi_out,                     \* _generate_merchant_insights: the returned insights
    calls                       \* the transactions given to _update_category_metrics

avars == <<emails, pc, idx, credit_info, spending_info, now, results, prev_results, run>>
cvars == <<cl_emails, cl_pc, cl_idx, cl_results>>
svars == <<sc_pc, sc_in, sc_out>>
rvars == <<rq_pc, rq_in, rq_dfr, rq_out, user_evaluation>>
kvars == <<processed_emails, email_analysis_collection, response, request>>
fvars == <<mi_pc, mi_in, mi_out, calls>>
vars == <<emails, pc, idx, credit_info, spending_info, now, results, prev_results, run,
          cl_emails, cl_pc, cl_idx, cl_results, sc_pc, sc_in, sc_out,
          rq_pc, rq_in, rq_dfr, rq_out, user_evaluation,
          processed_emails, email_analysis_collection, response, request,
          mi_pc, mi_in, mi_out, calls>>

\* ------------------------------------------------------------------ bounds
MaxEmails == 2
MaxClock == 1

\* ------------------------------------------------------------ small helpers
\* Python's None where a string is expected, and where a dict is expected
None == "None"
NoDict == [none |-> TRUE]
\* no request has been answered yet
NoResponse == [code |-> 0, body |-> NoDict]

RECURSIVE SumAmounts(_)
\* sum(t["amount"] for t in s), left to right from 0, as Python's sum and += do
SumAmounts(s) ==
    IF s = <<>> THEN 0 ELSE SumAmounts(SubSeq(s, 1, Len(s) - 1)) + s[Len(s)].amount

\* an unordered dict as a function: d[k] = v, and d.get(k, default)
EmptyDict == [k \in {} |-> 0]
Put(d, k, v) == [x \in DOMAIN d \cup {k} |-> IF x = k THEN v ELSE d[x]]
GetOr(d, k, default) == IF k \in DOMAIN d THEN d[k] ELSE default

\* an insertion-ordered dict as a sequence of records with a field "key"
Keys(d) == {d[i].key : i \in 1..Len(d)}
IndexOf(d, k) == CHOOSE i \in 1..Len(d) : d[i].key = k
Lookup(d, k) == d[IndexOf(d, k)]
Store(d, entry) ==
    IF entry.key \in Keys(d)
    THEN [d EXCEPT ![IndexOf(d, entry.key)] = entry]
    ELSE Append(d, entry)

\* round(num / den, 2) in hundredths (ties up; Python rounds the binary float)
Round2(num, den) == (200 * num + den) \div (2 * den)

Abs(x) == IF x < 0 THEN -x ELSE x

\* --------------------------------------------------------- pattern library
categories ==
    [credit_cards |-> {"hdfc", "icici", "sbi", "axis", "kotak", "yes", "idfc", "indusind",
                       "rbl", "federal", "dcb", "bandhan", "tata", "au", "pnb", "boi",
                       "canara", "union", "bob", "indian", "central", "ubi", "citi", "amex",
                       "standard_chartered", "hsbc", "dbs", "slice", "uni", "onecard"},
     food_dining |-> {"zomato", "swiggy", "uber eats", "restaurant", "food", "cafe", "dhaba",
                      "kitchen", "eatery", "biryani", "pizza", "bakery", "sweet", "catering",
                      "ola store"},
     travel_transport |-> {"makemytrip", "goibibo", "irctc", "indigo", "spicejet", "vistara",
                           "airasia", "air india", "uber", "ola", "olacab", "ola cab",
                           "rapido", "redbus", "railway", "airways", "flight", "bus", "cab",
                           "auto", "metro"},
     shopping_retail |-> {"amazon", "flipkart", "myntra", "ajio", "bigbasket", "grofers",
                          "dmart", "reliance", "trends", "lifestyle", "shoppers stop",
                          "tata cliq", "nykaa", "meesho"},
     financial |-> {"zerodha", "groww", "upstox"}]

transaction_keywords ==
    [credit_card_transaction |-> {"transaction alert", "spent", "debited", "charged",
                                  "purchase", "debit", "has been used", "for using",
                                  "transaction of"},
     credit_card_payment |-> {"payment received", "payment confirmed",
                              "thank you for your payment", "payment credited",
                              "amount credited", "payment processed", "payment successful"}]

\* the list, lowercased as _is_credit_card_promotional lowercases it
promotional_keywords ==
    {"offer", "reward", "exclusive", "discount", "save", "deal", "cashback", "promotion",
     "special", "limited time", "apply now", "pre-approved", "upgrade your card", "voucher",
     "gift", "benefit", "redeem", "lpa", "ctc", "dream", "tickets", "hiring", "loan",
     "opportunity", "bonus", "free", "earn", "points", "miles", "launch", "new",
     "introducing", "privilege", "membership"}

payment_confirmation_keywords ==
    {"payment received", "payment confirmed", "thank you for your payment",
     "payment has been posted", "payment processed", "payment successful",
     "payment credited", "amount credited", "credit card payment received",
     "we've received your payment", "payment acknowledged", "payment successfully posted",
     "bill payment confirmed", "card payment successful", "emi payment received",
     "auto-payment successful", "standing instruction executed", "auto debit successful",
     "credit posted to your account", "your account has been credited"}

\* the keys of self.patterns: there is no "payment" entry
pattern_keys == {"credit_card", "transaction"}

issuer_variations ==
    << <<"hdfc", {"hdfc", "hdfc bank", "hdfcbank"}>>,
       <<"icici", {"icici", "icici bank", "icicibank"}>>,
       <<"sbi", {"sbi", "sbi card", "sbicard", "state bank"}>>,
       <<"axis", {"axis", "axis bank", "axisbank"}>>,
       <<"kotak", {"kotak", "kotak bank", "kotakbank"}>>,
       <<"yes", {"yes", "yes bank", "yesbank"}>>,
       <<"idfc", {"idfc", "idfc bank", "idfcbank", "idfc first"}>>,
       <<"indusind", {"indusind", "indusind bank", "indusindbank"}>>,
       <<"rbl", {"rbl", "rbl bank", "rblbank"}>>,
       <<"federal", {"federal", "federal bank", "federalbank"}>>,
       <<"dcb", {"dcb", "dcb bank", "dcbbank"}>>,
       <<"bandhan", {"bandhan", "bandhan bank", "bandhanbank"}>>,
       <<"tata", {"tata", "tata card", "tata neu"}>>,
       <<"au", {"au", "au bank", "au small finance", "aubank"}>>,
       <<"standard_chartered", {"standard chartered", "sc bank", "scb", "sc"}>>,
       <<"hsbc", {"hsbc", "hsbc bank", "hsbcbank"}>>,
       <<"dbs", {"dbs", "dbs bank", "dbsbank"}>>,
       <<"citi", {"citi", "citibank", "citi bank"}>>,
       <<"amex", {"amex", "american express"}>>,
       <<"slice", {"slice", "sliceit"}>>,
       <<"uni", {"uni", "uni cards", "unicards"}>>,
       <<"onecard", {"onecard", "one card", "ftc"}>> >>

\* ------------------------------------------------------------ text of emails
\* The keywords of the tables above that occur in a sender address
\* (Python's `kw in sender_lower`), for the addresses of the model.
SubstringsOf(sender) ==
    CASE sender = "alerts@hdfcbank.com" -> {"hdfc", "hdfcbank"}
      [] sender = "alerts@pnbindia.in" -> {"pnb"}
      [] sender = "noreply@swiggy.in" -> {"swiggy"}
      [] sender = "rides@uber.com" -> {"uber"}
      [] sender = "food@amazon.in" -> {"food", "amazon"}
      [] sender = "noreply@zerodha.com" -> {"zerodha"}
      [] OTHER -> {}

\* any(kw in sender for kw in keywords)
SenderHasAny(sender, keywords) == SubstringsOf(sender) \cap keywords # {}

\* The card-number fragments: what patterns["credit_card"]["card_numbers"] captures.
card_numbers(card) ==
    CASE card = "Card XX1234" -> "1234"
      [] card = "Card ending 5678" -> "5678"
      [] OTHER -> None

\* f"{subject} {content}".lower(): the phrases that occur in the text
Phrases(e) == e.words \cup (IF e.card = "Card ending 5678" THEN {"card ending"} ELSE {})

\* any(kw in content_lower for kw in keywords)
ContentHasAny(e, keywords) == Phrases(e) \cap keywords # {}

\* ------------------------------------------------------------------- dates
NoDate == [kind |-> "None", day |-> 0]
DateTime(d) == [kind |-> "datetime", day |-> d]
DateStr(d) == [kind |-> "str", day |-> d]
\* date.strftime("%Y-%m-%d %H:%M:%S") of a datetime
strftime(date) == DateStr(date.day)

\* whether pd.to_datetime(date).strftime(...) raises (None, or an unparsable string)
ToDatetimeRaises(date) == date.kind \in {"None", "badstr"}

\* pd.to_datetime(date).strftime("%Y-%m") in 2024: the month of the day number
MonthKey(date) ==
    IF date.day < 31 THEN "2024-01"
    ELSE IF date.day < 60 THEN "2024-02"
    ELSE IF date.day < 91 THEN "2024-03" ELSE "2024-04"

\* bool(date): None is falsy, every datetime and every non-empty string is truthy
Truthy(date) == date.kind # "None"

\* --------------------------------------------------- EmailAnalyzer: classify
\* The mutant of is_credit_card_promotional whose filter is off.
is_credit_card_promotional_off(e) == FALSE

is_credit_card_promotional(e) ==
    IF ContentHasAny(e, promotional_keywords)
    THEN IF ContentHasAny(e, transaction_keywords.credit_card_transaction) THEN FALSE
         ELSE IF ContentHasAny(e, payment_confirmation_keywords) THEN FALSE
         ELSE TRUE
    ELSE FALSE

get_transaction_type(e, sender) ==
    IF SenderHasAny(sender, categories.credit_cards)
    THEN IF ContentHasAny(e, transaction_keywords.credit_card_payment)
         THEN "credit_card_payment"
         ELSE "credit_card"
    ELSE IF SenderHasAny(sender, categories.food_dining) THEN "food"
    ELSE IF SenderHasAny(sender, categories.travel_transport) THEN "transport"
    ELSE IF SenderHasAny(sender, categories.shopping_retail) THEN "shopping"
    ELSE IF SenderHasAny(sender, categories.financial) THEN "financial"
    ELSE IF ContentHasAny(e, {"credit card", "card ending"}) THEN "credit_card"
    ELSE IF ContentHasAny(e, {"order"}) /\ ContentHasAny(e, {"food", "meal", "restaurant"})
         THEN "food"
    ELSE IF ContentHasAny(e, {"ride", "trip", "booking"}) THEN "transport"
    ELSE IF ContentHasAny(e, {"order"}) /\ ContentHasAny(e, {"delivered", "shipping"})
         THEN "shopping"
    ELSE "unknown"

RECURSIVE FirstIssuer(_, _)
FirstIssuer(sender, i) ==
    IF i > Len(issuer_variations) THEN None
    ELSE IF SenderHasAny(sender, issuer_variations[i][2]) THEN issuer_variations[i][1]
    ELSE FirstIssuer(sender, i + 1)

identify_issuer(sender) == FirstIssuer(sender, 1)

\* amount_patterns.get(email_type, amount_patterns["credit_card"])
amount_patterns_for(email_type) ==
    LET
        amount_pattern_keys == {"credit_card", "food", "transport", "shopping", "financial"}
    IN
    IF email_type \in amount_pattern_keys THEN email_type ELSE "credit_card"

\* merchant_patterns.get(email_type, merchant_patterns["credit_card"])
merchant_patterns_for(email_type) ==
    LET
        merchant_pattern_keys == {"credit_card", "food", "transport", "shopping"}
    IN
    IF email_type \in merchant_pattern_keys THEN email_type ELSE "credit_card"

\* _extract_amount; 0 stands for None, which `if amount:` does not tell from 0.0
extract_amount(e, email_type) ==
    LET
        \* The amount fragments and the amount_patterns families whose expressions match them:
        \*   "Rs. N at"       (?:INR|Rs\.?|...)\s*([\d,]+...)\s+(?:at|@)          credit_card
        \*   "Fare: Rs. N"    (?:Fare|Amount)(?:\s+paid)?:\s*(?:INR|Rs\.?|...)     transport
        \*   "Amount: Rs. N"  (?:Amount|Total): | (?:Fare|Amount)...: | Amount:    food, transport, shopping
        \*   "Rs. N invested" (?:INR|Rs\.?|...)\s*([\d,]+...)\s+invested           financial
        AmountFamilies(fragment) ==
            CASE fragment = "Rs. N at" -> {"credit_card"}
              [] fragment = "Fare: Rs. N" -> {"transport"}
              [] fragment = "Amount: Rs. N" -> {"food", "transport", "shopping"}
              [] fragment = "Rs. N invested" -> {"financial"}
              [] OTHER -> {}
    IN
    IF amount_patterns_for(email_type) \in AmountFamilies(e.amount_text) THEN e.amount ELSE 0

extract_merchant(e, email_type) ==
    LET
        \* The merchant fragments, the merchant_patterns family that matches and its capture:
        \*   "at AMAZON on 12-03-2024"  at\s+(...)\s+on\s+\d{2}-\d{2}-\d{4}   credit_card
        \*   "from Dominos."            from\s+(...)(?:...|\.|$)               food
        MerchantMatch(fragment, family) ==
            CASE fragment = "at AMAZON on 12-03-2024" /\ family = "credit_card" -> "AMAZON"
              [] fragment = "from Dominos." /\ family = "food" -> "Dominos"
              [] OTHER -> None
    IN
    MerchantMatch(e.merchant_text, merchant_patterns_for(email_type))

\* ------------------------------------------- EmailAnalyzer: credit card pass
\* The mutant of process_transaction that forgets to add the amount to total_spend.
process_transaction_no_total(e, date, card_info) ==
    LET amount == extract_amount(e, get_transaction_type(e, ""))
        merchant == extract_merchant(e, get_transaction_type(e, ""))
    IN IF amount # 0
       THEN [card_info EXCEPT !.transactions = Append(@, [date |-> date, amount |-> amount,
                                  merchant |-> IF merchant # None THEN merchant ELSE "unknown",
                                  type |-> "debit"])]
       ELSE card_info

\* transaction_type = self._get_transaction_type(content, "") in _process_transaction
process_transaction_type(e) == get_transaction_type(e, "")

process_transaction(e, date, card_info) ==
    LET transaction_type == process_transaction_type(e)
        amount == extract_amount(e, transaction_type)
        merchant == extract_merchant(e, transaction_type)
    IN IF amount # 0
       THEN [card_info EXCEPT
                !.transactions = Append(@, [date |-> date, amount |-> amount,
                     merchant |-> IF merchant # None THEN merchant ELSE "unknown",
                     type |-> "debit"]),
                !.total_spend = @ + amount]
       ELSE card_info

\* _process_payment reads self.patterns["payment"]["mode"] once an amount is found
process_payment(e, date, card_info) ==
    LET amount == extract_amount(e, "credit_card_payment")
    IN IF amount = 0 THEN [exc |-> None, card_info |-> card_info]
       ELSE IF "payment" \notin pattern_keys
            THEN [exc |-> "KeyError: 'payment'", card_info |-> card_info]
            ELSE [exc |-> None,
                  card_info |-> [card_info EXCEPT !.payment_history =
                      Append(@, [date |-> date, amount |-> amount, type |-> "credit",
                                 mode |-> "unknown"])]]

\* One iteration of the loop of analyze_credit_cards: [exc, credit_info]
credit_card_email(e, info) ==
    LET
        NewCardInfo(card_key) ==
            [key |-> card_key, card_number |-> None, issuer |-> None, transactions |-> <<>>,
             total_spend |-> 0, payment_history |-> <<>>]
    IN
    IF e.sender = None
    THEN [exc |-> "AttributeError: 'NoneType' object has no attribute 'lower'", credit_info |-> info]
    ELSE IF e.date.kind = "None"
    THEN [exc |-> "AttributeError: 'NoneType' object has no attribute 'strftime'", credit_info |-> info]
    ELSE
    LET date == IF e.date.kind = "datetime" THEN strftime(e.date) ELSE e.date
        transaction_type == get_transaction_type(e, e.sender)
        card_number == card_numbers(e.card)
        issuer == identify_issuer(e.sender)
        card_key == issuer \o "_" \o card_number
        account == [(IF card_key \in Keys(info) THEN Lookup(info, card_key)
                     ELSE NewCardInfo(card_key))
                        EXCEPT !.issuer = issuer, !.card_number = card_number]
    IN IF is_credit_card_promotional(e) THEN [exc |-> None, credit_info |-> info]
       ELSE IF transaction_type \notin {"credit_card", "credit_card_payment"}
            THEN [exc |-> None, credit_info |-> info]
       ELSE IF card_number = None \/ issuer = None THEN [exc |-> None, credit_info |-> info]
       ELSE IF transaction_type = "credit_card"
            THEN [exc |-> None,
                  credit_info |-> Store(info, process_transaction(e, date, account))]
            ELSE LET p == process_payment(e, date, account)
                 IN [exc |-> p.exc, credit_info |-> Store(info, p.card_info)]

\* ----------------------------------------------- EmailAnalyzer: spending pass
\* The category keywords that occur in merchant.lower(), for the merchants of the model
MerchantSubstrings(merchant) ==
    CASE merchant = "AMAZON" -> {"amazon"}
      [] OTHER -> {}

categorize_merchant(merchant, transaction_type) ==
    IF transaction_type # "unknown" THEN transaction_type
    ELSE IF merchant = None \/ merchant = "unknown" THEN "others"
    ELSE IF MerchantSubstrings(merchant) \cap categories.credit_cards # {} THEN "credit_cards"
    ELSE IF MerchantSubstrings(merchant) \cap categories.food_dining # {} THEN "food_dining"
    ELSE IF MerchantSubstrings(merchant) \cap categories.travel_transport # {}
         THEN "travel_transport"
    ELSE IF MerchantSubstrings(merchant) \cap categories.shopping_retail # {}
         THEN "shopping_retail"
    ELSE IF MerchantSubstrings(merchant) \cap categories.financial # {} THEN "financial"
    ELSE "others"

\* The mutant of extract_transaction_details that keeps a transaction without amount.
extract_transaction_details_any_amount(e, date, sender) ==
    LET transaction_type == get_transaction_type(e, sender)
        amount == extract_amount(e, transaction_type)
        merchant == extract_merchant(e, transaction_type)
        name == IF merchant # None THEN merchant ELSE "unknown"
    IN IF transaction_type = "unknown" THEN NoDict
       ELSE [date |-> date, amount |-> amount, merchant |-> name,
             category |-> categorize_merchant(name, transaction_type),
             type |-> transaction_type, reference |-> "N/A",
             payment_mode |-> IF "payment" \in pattern_keys THEN "mode" ELSE "unknown"]

\* _extract_transaction_details: the transaction dict, or NoDict for None
extract_transaction_details(e, date, sender) ==
    LET transaction_type == get_transaction_type(e, sender)
        amount == extract_amount(e, transaction_type)
        merchant == extract_merchant(e, transaction_type)
        name == IF merchant # None THEN merchant ELSE "unknown"
    IN IF transaction_type = "unknown" THEN NoDict
       ELSE IF amount = 0 THEN NoDict
       ELSE [date |-> date, amount |-> amount, merchant |-> name,
             category |-> categorize_merchant(name, transaction_type),
             type |-> transaction_type, reference |-> "N/A",
             payment_mode |-> IF "payment" \in pattern_keys THEN "mode" ELSE "unknown"]

NewSpendingInfo ==
    [categories |-> <<>>,
     overall |-> [total_spend |-> 0, total_transactions |-> 0, monthly_totals |-> EmptyDict,
                  peak_spending_month |-> None, top_merchants |-> <<>>]]

\* merchants[merchant] += 1 on a defaultdict(int)
CountMerchant(merchants, merchant) ==
    IF merchant \in Keys(merchants)
    THEN [merchants EXCEPT ![IndexOf(merchants, merchant)].count = @ + 1]
    ELSE Append(merchants, [key |-> merchant, count |-> 1])

\* sorted(recent + [t], key=date, reverse=True) of a list already in that order:
\* the sort is stable, so t comes after every entry that is not older than it
InsertByDateDesc(recent, t) ==
    LET before == {i \in 1..Len(recent) : recent[i].date.day >= t.date.day}
        n == Cardinality(before)
    IN SubSeq(recent, 1, n) \o <<t>> \o SubSeq(recent, n + 1, Len(recent))

\* The mutant of Head5 that never truncates.
Head5_untruncated(s) == s

\* [:5]
Head5(s) == SubSeq(s, 1, IF Len(s) < 5 THEN Len(s) ELSE 5)

\* _update_category_metrics on the categories dict; every exception is caught inside,
\* and what was written to the bucket before it stays written
update_category_metrics(transaction, cats) ==
    LET
        NewCategory(category) ==
            [key |-> category, total_spend |-> 0, transaction_count |-> 0, merchants |-> <<>>,
             monthly_trends |-> EmptyDict, average_transaction |-> 0, largest_transaction |-> 0,
             recent_transactions |-> <<>>]
        Max(a, b) == IF a >= b THEN a ELSE b
    IN
    LET category == transaction.category
        amount == transaction.amount
        date == transaction.date
        merchant == transaction.merchant
        data == IF category \in Keys(cats) THEN Lookup(cats, category)
                ELSE NewCategory(category)
        basic == [data EXCEPT
                    !.total_spend = @ + amount,
                    !.transaction_count = @ + 1,
                    !.merchants = CountMerchant(@, merchant),
                    !.monthly_trends =
                        IF ToDatetimeRaises(date) THEN @
                        ELSE Put(@, MonthKey(date), GetOr(@, MonthKey(date), 0) + amount),
                    !.largest_transaction = Max(@, amount)]
        recent == [date |-> strftime(date), amount |-> amount, merchant |-> merchant]
    IN IF ~Truthy(date) THEN cats
       ELSE IF date.kind # "datetime" THEN Store(cats, basic)
       ELSE Store(cats, [basic EXCEPT
                            !.recent_transactions = Head5(InsertByDateDesc(@, recent))])

\* The mutant of update_overall_metrics that counts the transaction but not its amount.
update_overall_metrics_no_amount(transaction, overall) ==
    [exc |-> IF ToDatetimeRaises(transaction.date) THEN "ValueError" ELSE None,
     overall |-> [overall EXCEPT !.total_transactions = @ + 1]]

\* The mutant of update_overall_metrics that keeps the first peak month for ever.
update_overall_metrics_first_peak(transaction, overall) ==
    LET totals == [overall EXCEPT !.total_spend = @ + transaction.amount,
                                  !.total_transactions = @ + 1]
        month_key == MonthKey(transaction.date)
    IN IF ToDatetimeRaises(transaction.date)
       THEN [exc |-> "ValueError", overall |-> totals]
       ELSE [exc |-> None,
             overall |-> [totals EXCEPT
                 !.monthly_totals = Put(@, month_key, GetOr(@, month_key, 0) + transaction.amount),
                 !.peak_spending_month = IF @ = None THEN month_key ELSE @]]

\* _update_overall_metrics: [exc, overall]; nothing catches what pd.to_datetime raises
update_overall_metrics(transaction, overall) ==
    LET amount == transaction.amount
        date == transaction.date
        totals == [overall EXCEPT !.total_spend = @ + amount, !.total_transactions = @ + 1]
        month_key == MonthKey(date)
        monthly == Put(totals.monthly_totals, month_key,
                       GetOr(totals.monthly_totals, month_key, 0) + amount)
        peak == totals.peak_spending_month
    IN IF ToDatetimeRaises(date)
       THEN [exc |-> IF date.kind = "None"
                     THEN "AttributeError: 'NoneType' object has no attribute 'strftime'"
                     ELSE "ValueError: unknown string format",
             overall |-> totals]
       ELSE [exc |-> None,
             overall |-> [totals EXCEPT
                 !.monthly_totals = monthly,
                 !.peak_spending_month =
                     IF peak = None \/ monthly[month_key] > monthly[peak]
                     THEN month_key ELSE peak]]

\* One iteration of the loop of analyze_spending: [exc, spending_info]
spending_email(e, info) ==
    IF e.sender = None
    THEN [exc |-> "AttributeError: 'NoneType' object has no attribute 'lower'",
          spending_info |-> info]
    ELSE IF get_transaction_type(e, e.sender) = "credit_card_payment"
    THEN [exc |-> None, spending_info |-> info]
    ELSE IF is_credit_card_promotional(e) THEN [exc |-> None, spending_info |-> info]
    ELSE LET transaction == extract_transaction_details(e, e.date, e.sender)
             o == update_overall_metrics(transaction, info.overall)
         IN IF transaction = NoDict THEN [exc |-> None, spending_info |-> info]
            ELSE [exc |-> o.exc,
                  spending_info |->
                      [categories |-> update_category_metrics(transaction, info.categories),
                       overall |-> o.overall]]

\* sorted(merchants.items(), key=count, reverse=True): stable, highest count first
RECURSIVE SortByCountDesc(_)
SortByCountDesc(s) ==
    IF s = <<>> THEN <<>>
    ELSE LET rest == SortByCountDesc(SubSeq(s, 1, Len(s) - 1))
             x == s[Len(s)]
             n == Cardinality({i \in 1..Len(rest) : rest[i].count >= x.count})
         IN SubSeq(rest, 1, n) \o <<x>> \o SubSeq(rest, n + 1, Len(rest))

\* _calculate_spending_metrics: the second pass over the category buckets
calculate_spending_metrics(info) ==
    LET total_spend == info.overall.total_spend
        Final(c) ==
            LET top == Head5(SortByCountDesc(c.merchants))
            IN [key |-> c.key, total_spend |-> c.total_spend,
                transaction_count |-> c.transaction_count, merchants |-> c.merchants,
                monthly_trends |-> c.monthly_trends,
                average_transaction |-> Round2(c.total_spend, c.transaction_count),
                largest_transaction |-> c.largest_transaction,
                recent_transactions |-> c.recent_transactions,
                spend_percentage |-> Round2(100 * c.total_spend, total_spend),
                top_merchants |->
                    [i \in 1..Len(top) |->
                        [name |-> top[i].key, transactions |-> top[i].count,
                         percentage |-> Round2(100 * top[i].count, c.transaction_count)]]]
    IN IF total_spend = 0 THEN info
       ELSE [info EXCEPT !.categories = [i \in 1..Len(@) |-> Final(@[i])]]

\* ------------------------------------------------- EmailAnalyzer: insights
CardInsights(info) ==
    LET
        \* An insight string is modelled by its template and the values formatted into it.
        RECURSIVE MerchantCounts(_)
        MerchantCounts(transactions) ==
            IF transactions = <<>> THEN <<>>
            ELSE CountMerchant(MerchantCounts(SubSeq(transactions, 1, Len(transactions) - 1)),
                               transactions[Len(transactions)].merchant)
        \* max(merchants.items(), key=count): the first entry with the highest count
        MostFrequent(counts) ==
            counts[CHOOSE i \in 1..Len(counts) :
                      /\ \A j \in 1..Len(counts) : counts[j].count <= counts[i].count
                      /\ \A j \in 1..(i - 1) : counts[j].count < counts[i].count]
    IN
    LET total_spent == SumAmounts(info.transactions)
        top == MostFrequent(MerchantCounts(info.transactions))
    IN (IF total_spent > 0
        THEN <<[text |-> "card ending: total", bank |-> info.issuer,
                card |-> info.card_number, value |-> 100 * total_spent]>>
        ELSE <<>>)
       \o (IF info.payment_history # <<>>
           THEN <<[text |-> "Total payments for card", bank |-> info.issuer,
                   value |-> 100 * SumAmounts(info.payment_history)]>>
           ELSE <<>>)
       \o (IF info.transactions # <<>>
           THEN <<[text |-> "Most frequent merchant for card", bank |-> info.issuer,
                   merchant |-> top.key, count |-> top.count]>>
           ELSE <<>>)

RECURSIVE AllCardInsights(_)
AllCardInsights(credit_data) ==
    IF credit_data = <<>> THEN <<>>
    ELSE AllCardInsights(SubSeq(credit_data, 1, Len(credit_data) - 1))
         \o CardInsights(credit_data[Len(credit_data)])

generate_credit_insights(credit_data) ==
    IF Len(credit_data) > 0
    THEN <<[text |-> "Active credit cards", count |-> Len(credit_data)]>>
         \o AllCardInsights(credit_data)
    ELSE <<>>

\* sorted(categories.items(), key=total_spend, reverse=True)
RECURSIVE SortBySpendDesc(_)
SortBySpendDesc(s) ==
    IF s = <<>> THEN <<>>
    ELSE LET rest == SortBySpendDesc(SubSeq(s, 1, Len(s) - 1))
             x == s[Len(s)]
             n == Cardinality({i \in 1..Len(rest) : rest[i].total_spend >= x.total_spend})
         IN SubSeq(rest, 1, n) \o <<x>> \o SubSeq(rest, n + 1, Len(rest))

RECURSIVE LargeTransactions(_, _)
LargeTransactions(sorted_cats, total_spend) ==
    IF sorted_cats = <<>> THEN <<>>
    ELSE LET c == sorted_cats[1]
         IN (IF 10 * c.largest_transaction > total_spend
             THEN <<[text |-> "Large transaction", category |-> c.key,
                     value |-> 100 * c.largest_transaction]>>
             ELSE <<>>)
            \o LargeTransactions(Tail(sorted_cats), total_spend)

generate_spending_insights(spending_data) ==
    LET
        \* f"{num / den:.1f}" in tenths
        Round1(num, den) == (20 * num + den) \div (2 * den)
    IN
    LET overall == spending_data.overall
        total_spend == overall.total_spend
        monthly_totals == overall.monthly_totals
        months == DOMAIN monthly_totals
        sorted_cats == SortBySpendDesc(spending_data.categories)
        top3 == SubSeq(sorted_cats, 1, IF Len(sorted_cats) < 3 THEN Len(sorted_cats) ELSE 3)
        \* months are "YYYY-MM" keys of one year: sorted(keys) is their calendar order
        Later(a, b) == monthly_totals[a] # monthly_totals[a] \/ a = "2024-04"
                       \/ (a = "2024-03" /\ b # "2024-04")
                       \/ (a = "2024-02" /\ b = "2024-01") \/ a = b
        latest == CHOOSE m \in months : \A o \in months : Later(m, o)
        previous == CHOOSE m \in months \ {latest} : \A o \in months \ {latest} : Later(m, o)
        diff == monthly_totals[latest] - monthly_totals[previous]
    IN IF total_spend = 0 THEN <<[text |-> "No spending data available for analysis"]>>
       ELSE <<[text |-> "Total spending", value |-> 100 * total_spend,
               count |-> overall.total_transactions]>>
            \o (IF months # {}
                THEN <<[text |-> "Average monthly spending",
                        value |-> Round2(total_spend, Cardinality(months))]>>
                     \o (IF overall.peak_spending_month # None
                         THEN <<[text |-> "Highest spending in",
                                 month |-> overall.peak_spending_month,
                                 value |-> 100 * monthly_totals[overall.peak_spending_month]]>>
                         ELSE <<>>)
                ELSE <<>>)
            \o [i \in 1..Len(top3) |->
                   [text |-> "category: total (% of total)", category |-> top3[i].key,
                    value |-> 100 * top3[i].total_spend,
                    percent |-> Round1(100 * top3[i].total_spend, total_spend)]]
            \o LargeTransactions(sorted_cats, total_spend)
            \o (IF Cardinality(months) >= 2 /\ 100 * Abs(diff) > 20 * monthly_totals[previous]
                THEN <<[text |-> "Spending changed compared to previous month",
                        direction |-> IF diff > 0 THEN "increased" ELSE "decreased",
                        percent |-> Round1(100 * Abs(diff), monthly_totals[previous])]>>
                ELSE <<>>)
            \o (IF overall.top_merchants # <<>>
                THEN <<[text |-> "Most used merchant", merchant |-> overall.top_merchants[1]]>>
                ELSE <<>>)

generate_insights(analysis_results) ==
    (IF analysis_results.credit_analysis # <<>>
     THEN generate_credit_insights(analysis_results.credit_analysis) ELSE <<>>)
    \o generate_spending_insights(analysis_results.spending_analysis)

\* ------------------------------------------------------------- the batches
Email(sender, words, card, amount_text, amount, merchant_text, date) ==
    [sender |-> sender, words |-> words, card |-> card, amount_text |-> amount_text,
     amount |-> amount, merchant_text |-> merchant_text, date |-> date]

Bank == "alerts@hdfcbank.com"
Jan5 == DateTime(4)
Feb5 == DateTime(35)

EmailUniverse ==
    LET
        BadDateStr == [kind |-> "badstr", day |-> 0]
    IN
    {   \* card transactions of one issuer, on two cards, with and without a merchant
        Email(Bank, {"spent"}, "Card XX1234", "Rs. N at", 250, "at AMAZON on 12-03-2024", Jan5),
        Email(Bank, {"spent"}, "Card XX1234", "Rs. N at", 100, "", Feb5),
        Email(Bank, {"spent"}, "Card ending 5678", "Rs. N at", 100, "at AMAZON on 12-03-2024", Jan5),
        \* a card alert in which no amount resolves
        Email(Bank, {"spent"}, "Card XX1234", "", 0, "", Jan5),
        \* payment confirmations, with and without an amount
        Email(Bank, {"payment received"}, "Card XX1234", "Rs. N at", 250, "", Jan5),
        Email(Bank, {"payment received"}, "Card XX1234", "", 0, "", Feb5),
        \* promotional mail, and promotional words next to a transaction keyword
        Email(Bank, {"cashback", "reward", "points"}, "Card XX1234", "Rs. N at", 250,
              "at AMAZON on 12-03-2024", Jan5),
        Email(Bank, {"cashback", "spent"}, "Card XX1234", "Rs. N at", 100, "", Feb5),
        Email(Bank, {"cashback"}, "Card XX1234", "Rs. N at", 100, "", NoDate),
        \* a card alert about a ride, and a card mail without any transaction keyword
        Email(Bank, {"ride"}, "Card XX1234", "Fare: Rs. N", 100, "", Jan5),
        Email(Bank, {}, "Card XX1234", "Rs. N at", 250, "", Feb5),
        \* dates that are missing, already strings, or unparsable strings
        Email(Bank, {"spent"}, "Card XX1234", "Rs. N at", 250, "at AMAZON on 12-03-2024", NoDate),
        Email(Bank, {"spent"}, "Card XX1234", "Rs. N at", 100, "", DateStr(35)),
        Email(Bank, {"spent"}, "Card XX1234", "Rs. N at", 100, "", BadDateStr),
        \* merchants' own mail
        Email("noreply@swiggy.in", {"order"}, "", "Amount: Rs. N", 100, "from Dominos.", Jan5),
        Email("noreply@swiggy.in", {"order", "cashback"}, "", "Amount: Rs. N", 100,
              "from Dominos.", Feb5),
        Email("rides@uber.com", {"ride"}, "", "Fare: Rs. N", 250, "", Feb5),
        Email("food@amazon.in", {"order"}, "", "Amount: Rs. N", 250, "", Feb5),
        Email("noreply@zerodha.com", {}, "", "Rs. N invested", 250, "", Feb5),
        \* senders no table knows, a bank without issuer variations, a missing sender
        Email("friend@example.org", {"credit card", "spent"}, "Card XX1234", "Rs. N at", 250, "", Jan5),
        Email("friend@example.org", {}, "", "Rs. N at", 250, "", Jan5),
        Email("alerts@pnbindia.in", {"spent"}, "Card XX1234", "Rs. N at", 100, "", Jan5),
        Email(None, {"spent"}, "", "", 0, "", Jan5) }

Batches == UNION {[1..n -> EmailUniverse] : n \in 0..MaxEmails}

\* -------------------------------------------------- EmailAnalyzer: the call
\* The mutant of FreshCreditInfo that keeps the accounts of the previous call.
LeftoverCreditInfo == credit_info

\* credit_info = defaultdict(...) at the top of analyze_credit_cards
FreshCreditInfo == <<>>

Failed(exc) == [error |-> "Email analysis failed: " \o exc]

\* analyze_emails is called on a batch; the other components are not running
Init ==
    /\ emails \in Batches
    /\ pc = "call"
    /\ idx = 1
    /\ credit_info = <<>>
    /\ spending_info = NewSpendingInfo
    /\ now = 0
    /\ results = NoDict
    /\ prev_results = NoDict
    /\ run = 1
    /\ cl_emails = <<>> /\ cl_pc = "idle" /\ cl_idx = 0 /\ cl_results = NoDict
    /\ sc_pc = "idle" /\ sc_in = NoDict /\ sc_out = NoDict
    /\ rq_pc = "idle" /\ rq_in = NoDict /\ rq_dfr = NoDict /\ rq_out = NoDict
    /\ user_evaluation = <<>>
    /\ processed_emails = <<>> /\ email_analysis_collection = <<>>
    /\ response = NoResponse /\ request = NoDict
    /\ mi_pc = "idle" /\ mi_in = <<>> /\ mi_out = <<>> /\ calls = <<>>

\* analyze_emails is entered and calls analyze_credit_cards
AnalyzeEmailsCall ==
    /\ pc = "call"
    /\ pc' = "credit_cards" /\ idx' = 1
    /\ credit_info' = FreshCreditInfo
    /\ UNCHANGED <<emails, spending_info, now, results, prev_results, run, cvars, svars, rvars, kvars, fvars>>

\* analyze_credit_cards: one email of the loop
AnalyzeCreditCardsEmail ==
    /\ pc = "credit_cards" /\ idx <= Len(emails)
    /\ LET r == credit_card_email(emails[idx], credit_info)
       IN /\ credit_info' = r.credit_info
          /\ IF r.exc = None
             THEN idx' = idx + 1 /\ UNCHANGED <<pc, results>>
             ELSE pc' = "raised" /\ results' = Failed(r.exc) /\ UNCHANGED idx
    /\ UNCHANGED <<emails, spending_info, now, prev_results, run, cvars, svars, rvars, kvars, fvars>>

\* analyze_credit_cards returns dict(credit_info); analyze_spending starts
AnalyzeCreditCardsReturn ==
    /\ pc = "credit_cards" /\ idx > Len(emails)
    /\ pc' = "spending" /\ idx' = 1
    /\ spending_info' = NewSpendingInfo
    /\ UNCHANGED <<emails, credit_info, now, results, prev_results, run, cvars, svars, rvars, kvars, fvars>>

\* analyze_spending: one email of the loop
AnalyzeSpendingEmail ==
    /\ pc = "spending" /\ idx <= Len(emails)
    /\ LET r == spending_email(emails[idx], spending_info)
       IN /\ spending_info' = r.spending_info
          /\ IF r.exc = None
             THEN idx' = idx + 1 /\ UNCHANGED <<pc, results>>
             ELSE pc' = "raised" /\ results' = Failed(r.exc) /\ UNCHANGED idx
    /\ UNCHANGED <<emails, credit_info, now, prev_results, run, cvars, svars, rvars, kvars, fvars>>

\* analyze_spending: the final metrics, and the return
AnalyzeSpendingReturn ==
    /\ pc = "spending" /\ idx > Len(emails)
    /\ spending_info' = calculate_spending_metrics(spending_info)
    /\ pc' = "summary"
    /\ UNCHANGED <<emails, idx, credit_info, now, results, prev_results, run, cvars, svars, rvars, kvars, fvars>>

\* analyze_emails: the summary with datetime.now(), the insights, the return
AnalyzeEmailsReturn ==
    /\ pc = "summary"
    /\ \E t \in now..MaxClock :
          /\ now' = t
          /\ LET r == [credit_analysis |-> credit_info, spending_analysis |-> spending_info]
             IN results' = [credit_analysis |-> credit_info,
                            spending_analysis |-> spending_info,
                            summary |-> [total_emails |-> Len(emails), analysis_date |-> t,
                                         insights |-> generate_insights(r)]]
    /\ pc' = "done"
    /\ UNCHANGED <<emails, idx, credit_info, spending_info, prev_results, run, cvars, svars, rvars, kvars, fvars>>

\* a second analyze_emails call on the same batch
AnalyzeAgain ==
    /\ pc \in {"done", "raised"} /\ run = 1
    /\ prev_results' = results
    /\ run' = run + 1
    /\ pc' = "call"
    /\ results' = NoDict
    /\ UNCHANGED <<emails, idx, credit_info, spending_info, now, cvars, svars, rvars, kvars, fvars>>

Next ==
    \/ AnalyzeEmailsCall
    \/ AnalyzeCreditCardsEmail
    \/ AnalyzeCreditCardsReturn
    \/ AnalyzeSpendingEmail
    \/ AnalyzeSpendingReturn
    \/ AnalyzeEmailsReturn
    \/ AnalyzeAgain

Spec == Init /\ [][Next]_vars

\* ------------------------------------------------ properties: EmailAnalyzer
\* C1: analyze_emails never aborts a batch because of one email: whatever a single
\* email makes the code raise, the call does not end by raising.
C1_OneEmailNeverAborts == pc # "raised"

\* C2: every card account of analyze_credit_cards has total_spend equal to the sum of
\* the amounts of its transactions, at every point of the pass and in the result.
C2_TotalSpendIsSumOfTransactions ==
    /\ \A i \in 1..Len(credit_info) :
          credit_info[i].total_spend = SumAmounts(credit_info[i].transactions)
    /\ pc = "done" =>
          \A i \in 1..Len(results.credit_analysis) :
             results.credit_analysis[i].total_spend
                = SumAmounts(results.credit_analysis[i].transactions)

\* a result with two transactions on one card
C2_Witness ==
    /\ pc = "done"
    /\ \E i \in 1..Len(results.credit_analysis) :
          /\ Len(results.credit_analysis[i].transactions) = 2
          /\ results.credit_analysis[i].total_spend = 350

\* an email with a promotional keyword and no transaction-alert or payment-confirmation keyword
PromotionalOnly(e) ==
    /\ ContentHasAny(e, promotional_keywords)
    /\ ~ContentHasAny(e, transaction_keywords.credit_card_transaction)
    /\ ~ContentHasAny(e, payment_confirmation_keywords)

\* C3: the step that consumes a promotional email leaves every card account, every
\* category bucket and the overall totals as they were.
C3_PromotionalChangesNothing ==
    [][(pc \in {"credit_cards", "spending"} /\ idx <= Len(emails)
          /\ PromotionalOnly(emails[idx]))
       => (credit_info' = credit_info /\ spending_info' = spending_info)]_vars

\* both passes have consumed a promotional email in which a card, an issuer, an amount
\* and a merchant resolve, and nothing was recorded
C3_Witness ==
    /\ pc = "spending" /\ idx = 2
    /\ PromotionalOnly(emails[1])
    /\ card_numbers(emails[1].card) # None
    /\ identify_issuer(emails[1].sender) # None
    /\ extract_amount(emails[1], get_transaction_type(emails[1], emails[1].sender)) # 0
    /\ credit_info = <<>>
    /\ spending_info = NewSpendingInfo

\* C4: once analyze_spending has consumed the emails, the overall totals are the sums
\* over the categories, and after the final pass the spend percentages sum to 100
\* within the rounding of each (half a hundredth per category).
C4_OverallIsSumOfCategories ==
    LET
        RECURSIVE SumField(_, _)
        SumField(s, f) == IF s = <<>> THEN 0 ELSE SumField(SubSeq(s, 1, Len(s) - 1), f) + s[Len(s)][f]
    IN
    pc \in {"spending", "summary", "done"} =>
        LET cats == spending_info.categories
            overall == spending_info.overall
        IN /\ overall.total_spend = SumField(cats, "total_spend")
           /\ overall.total_transactions = SumField(cats, "transaction_count")
           /\ (pc # "spending" /\ overall.total_spend # 0) =>
                 2 * Abs(SumField(cats, "spend_percentage") - 10000) <= Len(cats)

\* two categories share the spending unevenly in a returned result
C4_Witness ==
    /\ pc = "done"
    /\ Len(results.spending_analysis.categories) = 2
    /\ results.spending_analysis.overall.total_spend = 350
    /\ results.spending_analysis.categories[1].spend_percentage = 7143

\* C5 as stated: two analyze_emails calls on the same batch return identical results.
C5_SameResultsTwice ==
    (run = 2 /\ pc \in {"done", "raised"}) => results = prev_results

\* C5 as amended: two analyze_emails calls on the same batch return results that are
\* identical except for summary.analysis_date, the wall-clock time of each call.
C5_SameResultsTwiceButDate ==
    LET
        \* the result of a call without the time of the call
        WithoutAnalysisDate(r) ==
            IF "summary" \in DOMAIN r THEN [r EXCEPT !.summary.analysis_date = 0] ELSE r
    IN
    (run = 2 /\ pc \in {"done", "raised"}) =>
        WithoutAnalysisDate(results) = WithoutAnalysisDate(prev_results)

\* two calls at different times have returned, with a card account in the result
C5_Witness ==
    /\ run = 2 /\ pc = "done"
    /\ results.credit_analysis # <<>>
    /\ results.summary.analysis_date # prev_results.summary.analysis_date

\* the categories in configured order, and the types _get_transaction_type names them by
CategoryOrder == <<"credit_cards", "food_dining", "travel_transport", "shopping_retail",
                   "financial">>
SenderMatches(sender) ==
    {i \in 1..Len(CategoryOrder) : SenderHasAny(sender, categories[CategoryOrder[i]])}
\* C7: when the sender of the email being consumed matches a category, the type the
\* code uses for it is the type of the first matching category in configured order,
\* also where _process_transaction picks the amount and merchant patterns.
C7_SenderDecidesType ==
    LET
        TypesOfCategory ==
            [credit_cards |-> {"credit_card", "credit_card_payment"}, food_dining |-> {"food"},
             travel_transport |-> {"transport"}, shopping_retail |-> {"shopping"},
             financial |-> {"financial"}]
        FirstSenderCategory(sender) ==
            CategoryOrder[CHOOSE i \in SenderMatches(sender) : \A j \in SenderMatches(sender) : i <= j]
        \* analyze_credit_cards hands the email to _process_transaction
        ReachesProcessTransaction(e) ==
            /\ e.sender # None /\ e.date.kind # "None"
            /\ ~is_credit_card_promotional(e)
            /\ get_transaction_type(e, e.sender) = "credit_card"
            /\ card_numbers(e.card) # None /\ identify_issuer(e.sender) # None
    IN
    (pc = "credit_cards" /\ idx <= Len(emails) /\ emails[idx].sender # None
       /\ SenderMatches(emails[idx].sender) # {}) =>
        LET e == emails[idx]
            expected == TypesOfCategory[FirstSenderCategory(e.sender)]
        IN /\ get_transaction_type(e, e.sender) \in expected
           /\ ReachesProcessTransaction(e) =>
                 \E t \in expected :
                    /\ amount_patterns_for(process_transaction_type(e)) = amount_patterns_for(t)
                    /\ merchant_patterns_for(process_transaction_type(e))
                          = merchant_patterns_for(t)

\* C8: an email from a credit-card issuer with a transaction-alert keyword and no
\* payment-confirmation keyword is classified credit_card_transaction.
C8_IssuerTransactionType ==
    (pc = "credit_cards" /\ idx <= Len(emails) /\ emails[idx].sender # None
       /\ SenderHasAny(emails[idx].sender, categories.credit_cards)
       /\ ContentHasAny(emails[idx], transaction_keywords.credit_card_transaction)
       /\ ~ContentHasAny(emails[idx], payment_confirmation_keywords)
       /\ ~ContentHasAny(emails[idx], transaction_keywords.credit_card_payment)) =>
        get_transaction_type(emails[idx], emails[idx].sender) = "credit_card_transaction"

\* ====================================================== EmailClassifier (v2)
\* the attributes __init__ gives an EmailClassifier
classifier_attributes == {"patterns", "categories", "transaction_keywords"}

\* The merchant fragments, the patterns["merchant"] family that matches and its capture
cl_MerchantMatch(fragment, family) ==
    CASE fragment = "at AMAZON on 12-03-2024" /\ family = "credit_card_merchant" -> "AMAZON"
      [] fragment = "from Dominos." /\ family = "food_delivery" -> "Dominos"
      [] OTHER -> None

\* _extract_pattern_match on an amount family; 0 stands for None (no fragment of the
\* model carries the amount "0", the only amount string that is truthy and zero)
cl_amount(e, family) ==
    LET
        \* The amount fragments and the patterns["amount"] families (and
        \* patterns["payment"]["credit_payment"]) whose expressions match them, ignoring case
        cl_AmountFamilies(fragment) ==
            CASE fragment = "Rs. N at" -> {"transaction"}
              [] fragment = "Fare: Rs. N" -> {"transport"}
              [] fragment = "Amount: Rs. N" -> {"food", "transport", "shopping"}
              [] fragment = "Rs. N invested" -> {"financial"}
              [] OTHER -> {}
    IN
                        IF family \in cl_AmountFamilies(e.amount_text) THEN e.amount ELSE 0

\* _get_email_type
get_email_type(e, sender) ==
    LET
        \* self.categories of EmailClassifier, in the order of the dict
        cl_categories ==
            [credit_cards |-> {"hdfc", "icici", "sbi", "axis", "kotak", "yes", "idfc", "indusind",
                               "rbl", "federal", "dcb", "bandhan", "tata", "au",
                               "standard_chartered", "hsbc", "dbs", "slice", "uni", "onecard",
                               "amex", "citi"},
             food_dining |-> {"zomato", "swiggy"},
             travel_transport |-> {"uber", "ola", "rapido"},
             shopping_retail |-> {"amazon", "flipkart", "myntra", "ajio", "bigbasket", "dmart",
                                  "tata cliq", "nykaa", "meesho"},
             financial |-> {"zerodha", "groww", "upstox"}]
        cl_transaction_keywords ==
            [credit_card_transaction |-> {"transaction alert", "spent", "debited", "charged",
                                          "purchase", "has been used", "for using",
                                          "transaction of"},
             credit_card_payment |-> {"payment received", "payment confirmed",
                                      "thank you for your payment", "payment credited",
                                      "amount credited", "payment processed",
                                      "payment successful"}]
    IN
    LET matches == {i \in 1..Len(CategoryOrder) :
                        SenderHasAny(sender, cl_categories[CategoryOrder[i]])}
        category == CategoryOrder[CHOOSE i \in matches : \A j \in matches : i <= j]
    IN IF matches # {}
       THEN IF category = "credit_cards"
                 /\ ContentHasAny(e, cl_transaction_keywords.credit_card_payment)
            THEN "credit_card_payment"
            ELSE IF category = "credit_cards"
                      /\ ContentHasAny(e, cl_transaction_keywords.credit_card_transaction)
            THEN "credit_card_transaction"
            ELSE category
       ELSE IF ContentHasAny(e, cl_transaction_keywords.credit_card_transaction)
            THEN "credit_card_transaction"
       ELSE IF ContentHasAny(e, cl_transaction_keywords.credit_card_payment)
            THEN "credit_card_payment"
       ELSE "unknown"

\* _extract_credit_card_info; the texts of the model have no limit, mode or reference
extract_credit_card_info(e, email_type) ==
    IF email_type = "credit_card_transaction"
    THEN [card_number |-> card_numbers(e.card),
          merchant |-> cl_MerchantMatch(e.merchant_text, "credit_card_merchant"),
          amount |-> cl_amount(e, "transaction"),
          available_limit |-> None, total_limit |-> None]
    ELSE [card_number |-> card_numbers(e.card),
          merchant |-> cl_MerchantMatch(e.merchant_text, "credit_card_merchant"),
          amount |-> cl_amount(e, "credit_payment"),
          payment_mode |-> None, reference |-> None]

\* _extract_info
extract_info(e, email_type) ==
    IF email_type \in {"credit_card_transaction", "credit_card_payment"}
    THEN extract_credit_card_info(e, email_type)
    ELSE IF email_type = "food_dining"
    THEN [merchant |-> cl_MerchantMatch(e.merchant_text, "food_delivery"),
          amount |-> cl_amount(e, "food")]
    ELSE IF email_type = "travel_transport"
    THEN [service |-> cl_MerchantMatch(e.merchant_text, "travel_transport"),
          amount |-> cl_amount(e, "transport")]
    ELSE IF email_type = "shopping_retail"
    THEN [merchant |-> cl_MerchantMatch(e.merchant_text, "shopping"),
          amount |-> cl_amount(e, "shopping")]
    ELSE IF email_type = "financial"
    THEN [instrument |-> cl_MerchantMatch(e.merchant_text, "financial"),
          amount |-> cl_amount(e, "financial")]
    ELSE [k \in {} |-> None]

\* classify_email: exc is the exception that leaves the call (None if it returns),
\* value the dict it returns.  A sender of None raises AttributeError at .lower()
\* inside the try; the handler then reads self.logger.
classify_email(e) ==
    IF e.sender = None
    THEN IF "logger" \in classifier_attributes
         THEN [exc |-> None,
               value |-> [error |-> "'NoneType' object has no attribute 'lower'"]]
         ELSE [exc |-> "AttributeError: 'EmailClassifier' object has no attribute 'logger'",
               value |-> NoDict]
    ELSE LET email_type == get_email_type(e, e.sender)
         IN [exc |-> None,
             value |-> [email_type |-> email_type, date |-> e.date, sender |-> e.sender,
                        extracted_info |-> extract_info(e, email_type)]]

RECURSIVE CountField(_, _, _, _)
\* counts[item["extracted_info"][field]] += 1 over the items of the lists, in order
CountField(res, cats, field, counts) ==
    IF cats = <<>> THEN counts
    ELSE LET items == res[cats[1]]
             Step[i \in 0..Len(items)] ==
                 IF i = 0 THEN counts
                 ELSE LET v == GetOr(items[i].extracted_info, field, None)
                      IN IF v # None THEN CountMerchant(Step[i - 1], v) ELSE Step[i - 1]
         IN CountField(res, Tail(cats), field, Step[Len(items)])

RECURSIVE SumInfoAmounts(_)
\* total += float(amount_str) over the items of one list
SumInfoAmounts(items) ==
    IF items = <<>> THEN 0
    ELSE SumInfoAmounts(SubSeq(items, 1, Len(items) - 1))
            + GetOr(items[Len(items)].extracted_info, "amount", 0)

\* _generate_summary; round(total, 2) of a whole number of rupees is that number
generate_summary(res) ==
    LET
        \* the lists _generate_summary counts, in the order of results.keys()
        SummaryCategories ==
            <<"credit_card_transactions", "credit_card_payments", "food_dining",
              "travel_transport", "shopping_retail", "financial">>
        FirstN(s, n) == SubSeq(s, 1, IF Len(s) < n THEN Len(s) ELSE n)
    IN
    LET names == {SummaryCategories[i] : i \in 1..Len(SummaryCategories)}
        merchants == CountField(res, SummaryCategories, "merchant", <<>>)
        payment_modes == CountField(res, <<"credit_card_payments">>, "payment_mode", <<>>)
    IN [categorized |-> [c \in names |-> Len(res[c])],
        total_amounts |-> [c \in names |-> SumInfoAmounts(res[c])],
        merchants |-> merchants,
        payment_modes |-> payment_modes,
        top_merchants |-> FirstN(SortByCountDesc(merchants), 10),
        top_payment_modes |-> FirstN(SortByCountDesc(payment_modes), 5)]

\* process_emails is called on a batch; the other components are not running
InitClassifier ==
    /\ cl_emails \in Batches
    /\ cl_pc = "call"
    /\ cl_idx = 1
    /\ cl_results = NoDict
    /\ emails = <<>> /\ pc = "idle" /\ idx = 0 /\ credit_info = <<>>
    /\ spending_info = NewSpendingInfo /\ now = 0
    /\ results = NoDict /\ prev_results = NoDict /\ run = 0
    /\ sc_pc = "idle" /\ sc_in = NoDict /\ sc_out = NoDict
    /\ rq_pc = "idle" /\ rq_in = NoDict /\ rq_dfr = NoDict /\ rq_out = NoDict
    /\ user_evaluation = <<>>
    /\ processed_emails = <<>> /\ email_analysis_collection = <<>>
    /\ response = NoResponse /\ request = NoDict
    /\ mi_pc = "idle" /\ mi_in = <<>> /\ mi_out = <<>> /\ calls = <<>>

\* process_emails builds results, reading datetime.now()
ProcessEmailsCall ==
    LET
        \* results at the top of process_emails
        NewResults(n, t) ==
            [credit_card_transactions |-> <<>>, credit_card_payments |-> <<>>,
             food_dining |-> <<>>, travel_transport |-> <<>>, shopping_retail |-> <<>>,
             financial |-> <<>>, unknown |-> <<>>,
             summary |-> [total_processed |-> n, categorized |-> EmptyDict,
                          total_amounts |-> EmptyDict, processing_date |-> t]]
    IN
    /\ cl_pc = "call"
    /\ \E t \in now..MaxClock :
          /\ now' = t
          /\ cl_results' = NewResults(Len(cl_emails), t)
    /\ cl_pc' = "loop" /\ cl_idx' = 1
    /\ UNCHANGED <<cl_emails, emails, pc, idx, credit_info, spending_info, results,
                   prev_results, run, svars, rvars, kvars, fvars>>

\* process_emails: one email of the loop, and the except clause if it raises
ProcessEmailsClassify ==
    /\ cl_pc = "loop" /\ cl_idx <= Len(cl_emails)
    /\ LET r == classify_email(cl_emails[cl_idx])
           exc == IF r.exc # None THEN r.exc
                  ELSE IF "email_type" \notin DOMAIN r.value THEN "KeyError: 'email_type'"
                  ELSE None
           list == IF r.value.email_type \in DOMAIN cl_results
                   THEN r.value.email_type ELSE "unknown"
       IN IF exc = None
          THEN /\ cl_results' = [cl_results EXCEPT ![list] = Append(@, r.value)]
               /\ cl_idx' = cl_idx + 1
               /\ UNCHANGED cl_pc
          ELSE IF "logger" \in classifier_attributes
          THEN /\ cl_results' = [error |-> exc]
               /\ cl_pc' = "done"
               /\ UNCHANGED cl_idx
          ELSE /\ cl_results' =
                     [raised |-> "AttributeError: 'EmailClassifier' object has no attribute 'logger'"]
               /\ cl_pc' = "raised"
               /\ UNCHANGED cl_idx
    /\ UNCHANGED <<cl_emails, avars, svars, rvars, kvars, fvars>>

\* process_emails: the summary, and the return
ProcessEmailsReturn ==
    /\ cl_pc = "loop" /\ cl_idx > Len(cl_emails)
    /\ LET s == generate_summary(cl_results)
           old == cl_results.summary
       IN cl_results' = [cl_results EXCEPT !.summary =
                            [total_processed |-> old.total_processed,
                             processing_date |-> old.processing_date,
                             categorized |-> s.categorized,
                             total_amounts |-> s.total_amounts,
                             merchants |-> s.merchants,
                             payment_modes |-> s.payment_modes,
                             top_merchants |-> s.top_merchants,
                             top_payment_modes |-> s.top_payment_modes]]
    /\ cl_pc' = "done"
    /\ UNCHANGED <<cl_emails, cl_idx, avars, svars, rvars, kvars, fvars>>

NextClassifier ==
    \/ ProcessEmailsCall
    \/ ProcessEmailsClassify
    \/ ProcessEmailsReturn

SpecClassifier == InitClassifier /\ [][NextClassifier]_vars

\* ---------------------------------------------- properties: EmailClassifier
\* C6: classify_email never raises and process_emails always returns: no call of
\* process_emails ends with an exception.
C6_ClassifierNeverRaises == cl_pc # "raised"

\* C28 as stated: process_emails places every email in exactly one result list, the
\* one for its classified type: credit_card_transaction in credit_card_transactions,
\* credit_card_payment in credit_card_payments, every other category in the list of
\* its name, and only emails classified unknown in the unknown list.
C28_EveryEmailInTheListOfItsType ==
    LET lists == {"credit_card_transactions", "credit_card_payments", "food_dining",
                  "travel_transport", "shopping_retail", "financial", "unknown"}
        TypeOf(list) == IF list = "credit_card_transactions" THEN "credit_card_transaction"
                        ELSE IF list = "credit_card_payments" THEN "credit_card_payment"
                        ELSE list
        RECURSIVE Total(_)
        Total(S) == IF S = {} THEN 0
                    ELSE LET list == CHOOSE x \in S : TRUE
                         IN Len(cl_results[list]) + Total(S \ {list})
    IN (cl_pc = "loop" /\ lists \subseteq DOMAIN cl_results) =>
          /\ Total(lists) = cl_idx - 1
          /\ \A list \in lists : \A k \in 1..Len(cl_results[list]) :
                cl_results[list][k].email_type = TypeOf(list)

\* ==================================================== risk score composition
\* str.lower()
lower(s) ==
    LET
        \* Strings are sequences of characters, so that str.lower() and the substring
        \* test `a in b` are computed.  A score that is a quotient (the app profile score,
        \* the final score) is an exact fraction [num, den].
        UpperCase ==
            <<"A", "B", "C", "D", "E", "F", "G", "H", "I", "J", "K", "L", "M", "N", "O", "P", "Q", "R", "S", "T", "U", "V", "W", "X", "Y", "Z">>
        LowerCase ==
            <<"a", "b", "c", "d", "e", "f", "g", "h", "i", "j", "k", "l", "m", "n", "o", "p", "q", "r", "s", "t", "u", "v", "w", "x", "y", "z">>
    IN
    [i \in 1..Len(s) |->
        IF \E k \in 1..Len(UpperCase) : UpperCase[k] = s[i]
        THEN LowerCase[CHOOSE k \in 1..Len(UpperCase) : UpperCase[k] = s[i]]
        ELSE s[i]]

\* needle in hay, on strings
In(needle, hay) ==
    \E k \in 0..(Len(hay) - Len(needle)) : SubSeq(hay, k + 1, k + Len(needle)) = needle

\* a Python value together with its type, where the code asks isinstance(x, list)
Str(s) == [type |-> "str", v |-> s]
List(l) == [type |-> "list", v |-> l]

\* None as a device score: what calculate_device_score returns when it falls off its end
NoScore == -1

calculate_device_score(device_score) ==
    IF device_score = "VERY_HIGH" THEN 1000
    ELSE IF device_score = "HIGH" THEN 750
    ELSE IF device_score = "MEDIUM" THEN 500
    ELSE IF device_score = "LOW" THEN 300
    ELSE NoScore

\* calculate_input_validation_score; exc is the exception identity[0] raises
calculate_input_validation_score(identity1, identity2) ==
    IF (identity1.type = "list" /\ identity1.v = <<>>)
          \/ (identity2.type = "list" /\ identity2.v = <<>>)
    THEN [exc |-> "IndexError: list index out of range", score |-> 0]
    ELSE LET id1 == IF identity1.type = "list" THEN identity1.v[1] ELSE identity1.v
             id2 == IF identity2.type = "list" THEN identity2.v[1] ELSE identity2.v
         IN [exc |-> None, score |-> IF ~In(lower(id1), lower(id2)) THEN 100 ELSE 0]

find_needle_in_haystack_contains(needle, haystack) ==
    \E i \in 1..Len(haystack) : In(lower(needle), lower(haystack[i]))

calculate_network_validation_score(network_from_device, network_from_alt_data) ==
    LET
        vi_names_list ==
            <<(<<"v", "i">>), (<<"v", "o", "d", "a", "f", "o", "n", "e">>), (<<"i", "d", "e", "a">>)>>
    IN
    LET lower_case_network == lower(network_from_alt_data)
    IN IF \E i \in 1..Len(vi_names_list) : vi_names_list[i] = lower_case_network
       THEN 100 * Cardinality({i \in 1..Len(vi_names_list) :
                   find_needle_in_haystack_contains(vi_names_list[i], network_from_device)})
       ELSE IF find_needle_in_haystack_contains(lower_case_network, network_from_device)
            THEN 100 ELSE 0

\* The mutant of calculate_app_profile_score that divides by the length of the
\* account-app list, duplicates included.
calculate_app_profile_score_by_len(downloaded_apps, account_apps) ==
    LET missing == {app \in {account_apps[i] : i \in 1..Len(account_apps)} :
                        ~find_needle_in_haystack_contains(app, downloaded_apps)}
    IN IF missing = {} THEN [num |-> 0, den |-> 1]
       ELSE [num |-> 1000 * Cardinality(missing), den |-> Len(account_apps)]

\* calculate_app_profile_score: 1000 / len(account_set) for every account app that
\* no downloaded app contains, as the fraction (1000 * missing) / len(account_set)
calculate_app_profile_score(downloaded_apps, account_apps) ==
    LET account_set == {account_apps[i] : i \in 1..Len(account_apps)}
        missing == {app \in account_set :
                        ~find_needle_in_haystack_contains(app, downloaded_apps)}
    IN IF missing = {} THEN [num |-> 0, den |-> 1]
       ELSE [num |-> 1000 * Cardinality(missing), den |-> Cardinality(account_set)]

\* The mutant of calculate_final_score that clamps: max(0, min(1, final_score)).
calculate_final_score_clamped(alternate_risk_score, device_risk_level, name_from_input, name_from_alt_data, network_from_device, network_from_alt_data, downloaded_apps, account_apps) ==
    LET device_score == calculate_device_score(device_risk_level)
        input_validation ==
            calculate_input_validation_score(name_from_input, name_from_alt_data)
        network_validation ==
            calculate_network_validation_score(network_from_device, network_from_alt_data)
        app == calculate_app_profile_score(downloaded_apps, account_apps)
        num == (50 * alternate_risk_score + 20 * device_score
                  + 5 * input_validation.score + 10 * network_validation) * app.den
               + 15 * app.num
        den == 100 * app.den
    IN IF input_validation.exc # None THEN [exc |-> input_validation.exc]
       ELSE IF device_score = NoScore
       THEN [exc |-> "TypeError: unsupported operand type(s) for *: 'float' and 'NoneType'"]
       ELSE [exc |-> None,
             final_score |-> IF num < 0 THEN [num |-> 0, den |-> 1]
                             ELSE IF num > den THEN [num |-> 1, den |-> 1]
                             ELSE [num |-> num, den |-> den],
             component_scores |->
                 [risk_score |-> alternate_risk_score,
                  device_risk_score |-> device_score,
                  input_validation_score |-> input_validation.score,
                  network_validation_score |-> network_validation,
                  app_score |-> app]]

\* calculate_final_score: the weights 0.5, 0.2, 0.05, 0.10, 0.15 in hundredths
calculate_final_score(alternate_risk_score, device_risk_level, name_from_input, name_from_alt_data, network_from_device, network_from_alt_data, downloaded_apps, account_apps) ==
    LET device_score == calculate_device_score(device_risk_level)
        input_validation ==
            calculate_input_validation_score(name_from_input, name_from_alt_data)
        network_validation ==
            calculate_network_validation_score(network_from_device, network_from_alt_data)
        app == calculate_app_profile_score(downloaded_apps, account_apps)
    IN IF input_validation.exc # None THEN [exc |-> input_validation.exc]
       ELSE IF device_score = NoScore
       THEN [exc |-> "TypeError: unsupported operand type(s) for *: 'float' and 'NoneType'"]
       ELSE [exc |-> None,
             final_score |->
                 [num |-> (50 * alternate_risk_score + 20 * device_score
                             + 5 * input_validation.score + 10 * network_validation)
                          * app.den + 15 * app.num,
                  den |-> 100 * app.den],
             component_scores |->
                 [risk_score |-> alternate_risk_score,
                  device_risk_score |-> device_score,
                  input_validation_score |-> input_validation.score,
                  network_validation_score |-> network_validation,
                  app_score |-> app]]

\* ---------------------------------------------------------------- arguments
JohnDoe == <<"J", "o", "h", "n", " ", "D", "o", "e">>
john == <<"j", "o", "h", "n">>
JaneRoe == <<"J", "a", "n", "e", " ", "R", "o", "e">>
Airtel == <<"A", "i", "r", "t", "e", "l">>
Jio == <<"J", "i", "o">>
Vi == <<"V", "i">>
amazon == <<"a", "m", "a", "z", "o", "n">>
facebook == <<"f", "a", "c", "e", "b", "o", "o", "k">>
netflix == <<"n", "e", "t", "f", "l", "i", "x">>
\* calculate_final_score is called; the other components are not running
InitScore ==
    LET
        RiskScores == {0, 700}
        RiskLevels == {"VERY_HIGH", "HIGH", "MEDIUM", "LOW", "UNKNOWN"}
        InputNames == {Str(JohnDoe), Str(john), Str(JaneRoe)}
        AltDataNames == {Str(JohnDoe), List(<<JohnDoe>>), List(<<>>)}
        DeviceNetworks ==
            LET
                VodafoneIdea == <<"V", "o", "d", "a", "f", "o", "n", "e", " ", "I", "d", "e", "a">>
                airtel4G == <<"a", "i", "r", "t", "e", "l", " ", "4", "G">>
            IN
                          {<<Airtel>>, <<airtel4G>>, <<Jio, VodafoneIdea>>, <<Vi>>, <<>>}
        AltDataNetworks ==
            LET
                BSNL == <<"B", "S", "N", "L">>
                Idea == <<"I", "D", "E", "A">>
                JIO == <<"J", "I", "O">>
            IN
                           {Airtel, JIO, Vi, Idea, BSNL}
        DownloadedApps ==
            LET
                AmazonShopping == <<"c", "o", "m", ".", "A", "m", "a", "z", "o", "n", ".", "s", "h", "o", "p", "p", "i", "n", "g">>
            IN
            {<<amazon, facebook, netflix>>, <<amazon, netflix>>, <<AmazonShopping>>, <<>>}
        AccountApps ==
            LET
                spotify == <<"s", "p", "o", "t", "i", "f", "y">>
            IN
            {<<amazon, facebook, netflix, spotify>>, <<amazon, facebook, netflix>>,
             <<amazon, amazon>>, <<>>}
    IN
    /\ sc_in \in [alternate_risk_score : RiskScores, device_risk_level : RiskLevels,
                  name_from_input : InputNames, name_from_alt_data : AltDataNames,
                  network_from_device : DeviceNetworks,
                  network_from_alt_data : AltDataNetworks,
                  downloaded_apps : DownloadedApps, account_apps : AccountApps]
    /\ sc_pc = "call"
    /\ sc_out = NoDict
    /\ emails = <<>> /\ pc = "idle" /\ idx = 0 /\ credit_info = <<>>
    /\ spending_info = NewSpendingInfo /\ now = 0
    /\ results = NoDict /\ prev_results = NoDict /\ run = 0
    /\ cl_emails = <<>> /\ cl_pc = "idle" /\ cl_idx = 0 /\ cl_results = NoDict
    /\ rq_pc = "idle" /\ rq_in = NoDict /\ rq_dfr = NoDict /\ rq_out = NoDict
    /\ user_evaluation = <<>>
    /\ processed_emails = <<>> /\ email_analysis_collection = <<>>
    /\ response = NoResponse /\ request = NoDict
    /\ mi_pc = "idle" /\ mi_in = <<>> /\ mi_out = <<>> /\ calls = <<>>

\* the call of calculate_final_score: it returns, or an exception leaves it
CalculateFinalScore ==
    /\ sc_pc = "call"
    /\ LET r == calculate_final_score(
                    sc_in.alternate_risk_score, sc_in.device_risk_level,
                    sc_in.name_from_input, sc_in.name_from_alt_data,
                    sc_in.network_from_device, sc_in.network_from_alt_data,
                    sc_in.downloaded_apps, sc_in.account_apps)
       IN /\ sc_out' = r
          /\ sc_pc' = IF r.exc = None THEN "done" ELSE "raised"
    /\ UNCHANGED <<sc_in, avars, cvars, rvars, kvars, fvars>>

SpecScore == InitScore /\ [][CalculateFinalScore]_vars

\* ------------------------------------------ properties: risk score composition
\* C9: the final score calculate_final_score returns is 0.5*risk + 0.2*device
\* + 0.05*inputValidation + 0.10*networkValidation + 0.15*appProfile of the component
\* scores it reports, the risk term being the alternate risk score it was given;
\* nothing clamps or adjusts it.
C9_FinalScoreIsWeightedSum ==
    sc_pc = "done" =>
        LET c == sc_out.component_scores
            f == sc_out.final_score
        IN /\ c.risk_score = sc_in.alternate_risk_score
           /\ f.num * 100 * c.app_score.den
                = ((50 * c.risk_score + 20 * c.device_risk_score
                      + 5 * c.input_validation_score + 10 * c.network_validation_score)
                     * c.app_score.den + 15 * c.app_score.num) * f.den

\* a call that returned with every component above zero and a final score above 1
C9_Witness ==
    /\ sc_pc = "done"
    /\ sc_out.component_scores.risk_score > 0
    /\ sc_out.component_scores.device_risk_score > 0
    /\ sc_out.component_scores.input_validation_score > 0
    /\ sc_out.component_scores.network_validation_score > 0
    /\ sc_out.component_scores.app_score.num > 0
    /\ sc_out.final_score.num > sc_out.final_score.den

\* C10: in the scenario the component scores are 1000, 0, 0 and 250 (device, input
\* validation, network validation, app profile) and the final score is 587.5.
C10_ScenarioScore ==
    LET
        \* the scenario: risk 700, VERY_HIGH, the claimed name is the alternate-data name, the
        \* device reports the alternate-data carrier, one of four account apps is not installed
        Scenario ==
            LET name == IF sc_in.name_from_alt_data.type = "list"
                        THEN sc_in.name_from_alt_data.v[1] ELSE sc_in.name_from_alt_data.v
                account_set == {sc_in.account_apps[i] : i \in 1..Len(sc_in.account_apps)}
                installed == {sc_in.downloaded_apps[i] : i \in 1..Len(sc_in.downloaded_apps)}
            IN /\ sc_in.alternate_risk_score = 700
               /\ sc_in.device_risk_level = "VERY_HIGH"
               /\ sc_in.name_from_alt_data.v # <<>>
               /\ sc_in.name_from_input.v = name
               /\ \E i \in 1..Len(sc_in.network_from_device) :
                     sc_in.network_from_device[i] = sc_in.network_from_alt_data
               /\ Cardinality(account_set) = 4
               /\ Cardinality(account_set \ installed) = 1
    IN
    (sc_pc = "done" /\ Scenario) =>
        /\ sc_out.component_scores.device_risk_score = 1000
        /\ sc_out.component_scores.input_validation_score = 0
        /\ sc_out.component_scores.network_validation_score = 0
        /\ sc_out.component_scores.app_score.num = 250 * sc_out.component_scores.app_score.den
        /\ 10 * sc_out.final_score.num = 5875 * sc_out.final_score.den

\* ------------------------------------------------------------------- C23
\* C23 as stated: calculate_network_validation_score returns exactly 100 when the
\* device-reported carrier name is found, case-insensitively, as a substring of the
\* alternate-data carrier name, or when both belong to the group {Vi, Vodafone, Idea},
\* and 0 otherwise; it returns no other value.
C23_NetworkScoreIs100Or0 ==
    LET group == {<<"v", "i">>, <<"v", "o", "d", "a", "f", "o", "n", "e">>, <<"i", "d", "e", "a">>}
        device == sc_in.network_from_device
        alt_data == sc_in.network_from_alt_data
        found == \E i \in 1..Len(device) : In(lower(device[i]), lower(alt_data))
        InGroup(name) == \E g \in group : In(g, lower(name))
        both == InGroup(alt_data) /\ \E i \in 1..Len(device) : InGroup(device[i])
    IN sc_pc = "done" =>
          sc_out.component_scores.network_validation_score
             = IF found \/ both THEN 100 ELSE 0

ReachesExtraction(e) ==
    /\ e.sender # None
    /\ get_transaction_type(e, e.sender) \notin {"unknown", "credit_card_payment"}
    /\ ~is_credit_card_promotional(e)

\* the count of merchant in a category bucket, 0 when either is missing
MerchantCount(cats, category, merchant) ==
    IF category \notin Keys(cats) THEN 0
    ELSE IF merchant \notin Keys(Lookup(cats, category).merchants) THEN 0
    ELSE Lookup(Lookup(cats, category).merchants, merchant).count

\* C13: amount is the only mandatory field of a transaction.  In analyze_spending an
\* email in which no amount pattern of its type matches leaves the overall totals and
\* every category bucket unchanged, and is still counted in summary.total_emails of
\* the result; an email with an amount but no merchant match still yields a
\* transaction, with merchant "unknown", which enters the overall totals and, when the
\* email carries a date, the bucket of its type under the merchant "unknown".
C13_AmountIsTheOnlyMandatoryField ==
    [][/\ (pc = "spending" /\ idx <= Len(emails) /\ emails[idx].sender # None) =>
            LET e == emails[idx]
                type == get_transaction_type(e, e.sender)
                amount == extract_amount(e, type)
            IN /\ amount = 0 => spending_info' = spending_info
               /\ (ReachesExtraction(e) /\ amount # 0 /\ extract_merchant(e, type) = None) =>
                     /\ extract_transaction_details(e, e.date, e.sender) # NoDict
                     /\ extract_transaction_details(e, e.date, e.sender).merchant = "unknown"
                     /\ spending_info'.overall.total_transactions
                           = spending_info.overall.total_transactions + 1
                     /\ spending_info'.overall.total_spend
                           = spending_info.overall.total_spend + amount
                     /\ Truthy(e.date) =>
                           /\ type \in Keys(spending_info'.categories)
                           /\ MerchantCount(spending_info'.categories, type, "unknown")
                                 = MerchantCount(spending_info.categories, type, "unknown") + 1
       /\ pc' = "done" => results'.summary.total_emails = Len(emails)]_vars

\* a returned result for a card alert without amount followed by a ride receipt
\* without merchant: two emails counted, one transaction, of merchant "unknown"
C13_Witness ==
    /\ pc = "done"
    /\ Len(emails) = 2
    /\ ReachesExtraction(emails[1])
    /\ extract_amount(emails[1], get_transaction_type(emails[1], emails[1].sender)) = 0
    /\ extract_merchant(emails[2], get_transaction_type(emails[2], emails[2].sender)) = None
    /\ results.summary.total_emails = 2
    /\ results.spending_analysis.overall.total_transactions = 1
    /\ Len(results.spending_analysis.categories) = 1
    /\ MerchantCount(results.spending_analysis.categories, "transport", "unknown") = 1

\* ------------------------------------------------------------------- C15
\* C15 as stated: in analyze_spending a transaction whose date is missing or is not a
\* timestamp has its whole metric update skipped: the category buckets and the
\* overall totals stay exactly as they were, and the loop goes on to the next email.
C15_BadDateSkipsWholeUpdate ==
    [][(/\ pc = "spending" /\ idx <= Len(emails)
        /\ ReachesExtraction(emails[idx])
        /\ extract_transaction_details(emails[idx], emails[idx].date, emails[idx].sender)
              # NoDict
        /\ emails[idx].date.kind # "datetime") =>
            /\ spending_info' = spending_info
            /\ pc' = "spending" /\ idx' = idx + 1]_vars

\* ------------------------------------------------------------------- C16
\* C16 as stated: a card account is created on the first transaction or payment that
\* references its key, so when analyze_credit_cards returns every account holds at
\* least one transaction or payment; and during the pass no account is removed.
C16_AccountsCreatedLazily ==
    [][/\ (pc = "credit_cards" /\ pc' # "call") => Keys(credit_info) \subseteq Keys(credit_info')
       /\ (pc = "credit_cards" /\ pc' = "spending") =>
             \A i \in 1..Len(credit_info') :
                \/ credit_info'[i].transactions # <<>>
                \/ credit_info'[i].payment_history # <<>>]_vars

\* ------------------------------------------------------------------- C17
\* C17 as stated: once analyze_spending has returned, overall.top_merchants lists the
\* merchants with the most transactions across all categories (at most ten), and it is
\* not empty when at least one transaction was aggregated.
C17_OverallTopMerchants ==
    (pc \in {"summary", "done"} /\ spending_info.overall.total_transactions >= 1) =>
        /\ spending_info.overall.top_merchants # <<>>
        /\ Len(spending_info.overall.top_merchants) <= 10

\* ========================================================== bureau_eye_submit
\* utils.create_response called with the keyword arguments kw.  Its
\* parameters are status, message, error and response; the local dict it builds
\* is also named response, so the "response" entry always refers to the dict itself.
create_response(kw) ==
    IF ~(DOMAIN kw \subseteq {"status", "message", "error", "response"})
    THEN [exc |-> "create_response() got an unexpected keyword argument 'resp'",
          value |-> NoDict]
    ELSE LET keys == {"status", "timestamp", "requestId", "response"}
                        \cup (IF "error" \in DOMAIN kw THEN {"error"} ELSE {})
                        \cup (IF kw.message # "" THEN {"message"} ELSE {})
         IN [exc |-> None,
             value |-> [k \in keys |->
                          CASE k = "timestamp" -> "now"
                            [] k = "requestId" -> "uuid4"
                            [] k = "response" -> "<this dict>"
                            [] OTHER -> kw[k]]]

\* what the HTTP layer can answer to one request
HttpOutcomes ==
    {[kind |-> "RequestException", status_code |-> 0]}
       \cup {[kind |-> "response", status_code |-> c] : c \in {200, 401, 400, 409, 422, 500}}

\* utils.do_http_request.  When requests.request raises, the handler reads the
\* local `response`, which was never bound.
do_http_request(outcome) ==
    IF outcome.kind = "RequestException"
    THEN [exc |-> "cannot access local variable 'response' where it is not associated with a value",
          value |-> NoDict]
    ELSE IF outcome.status_code = 200
    THEN create_response([status |-> "success", message |-> "success",
                          response |-> "Response"])
    ELSE IF outcome.status_code = 401
    THEN create_response([status |-> "error", error |-> "Unauthorized",
                          message |-> "Invalid authentication credentials",
                          response |-> "Response"])
    ELSE IF outcome.status_code = 400
    THEN create_response([status |-> "error", error |-> "Bad Request",
                          message |-> "Invalid request parameters",
                          response |-> "Response"])
    ELSE IF outcome.status_code = 409
    THEN create_response([status |-> "error", error |-> "Conflict",
                          message |-> "SessionId Already Present!",
                          response |-> "Response"])
    ELSE IF outcome.status_code = 422
    THEN create_response([status |-> "error", error |-> "Unprocessable Entity",
                          message |-> "SessionId Not Found!",
                          response |-> "Response"])
    ELSE create_response([status |-> "error", error |-> "API Error: Status Code",
                          message |-> "Service returned message",
                          response |-> "Response"])

\* the except clause of get_device_insights
device_insights_failed(exc) ==
    create_response([status |-> "error", error |-> "Internal Server Error",
                     message |-> "Got Exception: " \o exc]).value

\* the except clause of bureau_eye_submit
submit_failed(exc) ==
    create_response([status |-> "error", error |-> "Internal Server Error",
                     message |-> exc]).value

\* the services get_alt_data_requests asks, in order
alt_data_requests ==
    <<"email-intelligence", "email-name-attributes", "email-social-advance", "phone-name",
      "phone-name-attributes", "phone-social-advance", "phone-network">>

\* call_apis_parallel: the merged response, once every request has answered;
\* answers[i] is the status make_post_request reports for request i
call_apis_parallel(answers) ==
    [success |-> {alt_data_requests[i] : i \in {j \in 1..Len(alt_data_requests) :
                                                 answers[j] = "ok"}},
     failed |-> {alt_data_requests[i] : i \in {j \in 1..Len(alt_data_requests) :
                                                 answers[j] # "ok"}}]

\* the constants of the phone accounts and the fields of phone-social-advance
phone_accounts ==
    <<[key |-> <<"p", "h", "o", "n", "e", "W", "h", "a", "t", "s", "A", "p", "p">>,
       field |-> "whatsapp"],
      [key |-> <<"p", "h", "o", "n", "e", "I", "n", "s", "t", "a", "g", "r", "a", "m">>,
       field |-> "instagram"],
      [key |-> <<"p", "h", "o", "n", "e", "A", "m", "a", "z", "o", "n">>,
       field |-> "amazon"],
      [key |-> <<"p", "h", "o", "n", "e", "P", "a", "y", "t", "m">>,
       field |-> "paytm"],
      [key |-> <<"p", "h", "o", "n", "e", "F", "l", "i", "p", "k", "a", "r", "t">>,
       field |-> "flipkart"],
      [key |-> <<"p", "h", "o", "n", "e", "I", "n", "d", "i", "a", "m", "a", "r", "t">>,
       field |-> "indiamart"],
      [key |-> <<"p", "h", "o", "n", "e", "J", "e", "e", "v", "a", "n", "s", "a", "a", "t", "h", "i">>,
       field |-> "jeevansaathi"],
      [key |-> <<"p", "h", "o", "n", "e", "J", "i", "o", "m", "a", "r", "t">>,
       field |-> "jiomart"],
      [key |-> <<"p", "h", "o", "n", "e", "S", "h", "a", "a", "d", "i">>,
       field |-> "shaadi"],
      [key |-> <<"p", "h", "o", "n", "e", "S", "w", "i", "g", "g", "y">>,
       field |-> "swiggy"],
      [key |-> <<"p", "h", "o", "n", "e", "T", "o", "i">>,
       field |-> "toi"],
      [key |-> <<"p", "h", "o", "n", "e", "Y", "a", "t", "r", "a">>,
       field |-> "yatra"],
      [key |-> <<"p", "h", "o", "n", "e", "Z", "o", "h", "o">>,
       field |-> "zoho"]>>

\* bureau_eye_submit from line 28 on, entered when the device insights arrived
\* with status success: answers are the statuses of the alternate-data calls
\* and risk_answer the risk model's; evaluation is what updateUserEvaluation inserts
submit_after_insights(device_data, dfr, answers, risk_answer) ==
    LET
        \* d[k] of a dict made by create_response: its "response" entry is the dict itself
        Item(d, k) == IF k = "response" THEN d ELSE d[k]
        \* get_user_details_from_userId on userId.split("_")
        get_user_details_from_userId(userId) ==
            IF Len(userId.components) # 3
            THEN [exc |-> "Failed to parse userId: Invalid userId format. Expected format: name_phoneNumber_email"]
            ELSE IF userId.phone_digits < 12
            THEN [exc |-> "Failed to parse userId: Invalid phone number"]
            ELSE IF ~userId.email_has_at
            THEN [exc |-> "Failed to parse userId: Invalid email format"]
            ELSE [exc |-> None, name |-> userId.components[1]]
        \* get_risk_service_response: the risk model's JSON, or NoDict for None
        get_risk_service_response(answer) ==
            IF answer \in {"HTTPError", "RequestException"} THEN NoDict
            ELSE IF answer = "scored" THEN [alternateRiskScore |-> 700]
            ELSE [riskModels |-> "none"]
        \* get_signals_response; a failed service is read as {} and every field takes its
        \* default.  exc is the AttributeError of None.get when the risk model failed.
        get_signals_response(service_response, risk_model_response) ==
            LET
                \* what phone-social-advance answers for the user of the model
                social_advance_data(field) ==
                    IF field \in {"whatsapp", "amazon"} THEN "Account Found" ELSE "Account Not Found"
            IN
            LET ok(svc) == svc \in service_response.success
            IN IF risk_model_response = NoDict
               THEN [exc |-> "'NoneType' object has no attribute 'get'"]
               ELSE [exc |-> None,
                     name |-> List(IF ok("phone-name") THEN <<JohnDoe>> ELSE <<(<<>>)>>),
                     currentNetworkName |-> IF ok("phone-network") THEN Airtel ELSE <<>>,
                     accounts |-> [i \in 1..Len(phone_accounts) |->
                                     IF ok("phone-social-advance")
                                     THEN social_advance_data(phone_accounts[i].field)
                                     ELSE "Error"],
                     phoneWhatsAppBusiness |-> "0",
                     alternateRiskScore |-> GetOr(risk_model_response, "alternateRiskScore", 0)]
        \* utils.get_account_list; phoneWhatsAppBusiness is "0" or "1", never "Account Found"
        get_account_list(signals_output) ==
            LET
                RECURSIVE AccountList(_, _)
                AccountList(signals, i) ==
                    IF i > Len(phone_accounts) THEN <<>>
                    ELSE (IF signals.accounts[i] = "Account Found"
                          THEN <<phone_accounts[i].key>> ELSE <<>>) \o AccountList(signals, i + 1)
            IN
                                            AccountList(signals_output, 1)
        \* utils.get_package_names
        get_package_names(user_application_list) ==
            [i \in 1..Len(user_application_list) |-> user_application_list[i].packageName_]
    IN
    LET package_name_list ==
            get_package_names(device_data.packageManagerInfo_.userApplicationList_)
        carrier_info == device_data.systemProperties_.systemProperties
        user == get_user_details_from_userId(device_data.userId_)
        service_response == call_apis_parallel(answers)
        risk_model_response == get_risk_service_response(risk_answer)
        signals_output == get_signals_response(service_response, risk_model_response)
        account_list == get_account_list(signals_output)
        insights == Item(Item(dfr, "response"), "response")
        final_score_response ==
            calculate_final_score(signals_output.alternateRiskScore, insights.riskLevel,
                                  Str(user.name), signals_output.name, carrier_info,
                                  signals_output.currentNetworkName, package_name_list,
                                  account_list)
        raised(exc) == [out |-> submit_failed(exc), score |-> NoDict, evaluation |-> <<>>]
    IN IF user.exc # None THEN raised(user.exc)
       ELSE IF signals_output.exc # None THEN raised(signals_output.exc)
       ELSE IF "riskLevel" \notin DOMAIN insights THEN raised("'riskLevel'")
       ELSE IF final_score_response.exc # None THEN raised(final_score_response.exc)
       ELSE IF "riskCauses" \notin DOMAIN insights
       THEN [out |-> submit_failed("'riskCauses'"), score |-> final_score_response,
             evaluation |-> <<>>]
       ELSE [out |-> submit_failed(create_response(
                        [status |-> "success",
                         message |-> "succesfully computed final score",
                         resp |-> "final_score_response"]).exc),
             score |-> final_score_response,
             evaluation |-> <<[userID |-> device_data.userId_,
                               finalScore |-> final_score_response.final_score,
                               riskSignals |-> insights.riskCauses]>>]

\* a request arrives; the other components are not running
InitSubmit ==
    LET
        \* the device payloads of the requests; one lacks networkInfo_
        DeviceData ==
            LET
                \* the userId_ values of the requests: name_phoneNumber_email
                UserIds ==
                    {[components |-> <<JohnDoe, "919876543210", "john@x.in">>, phone_digits |-> 12,
                      email_has_at |-> TRUE],
                     [components |-> <<JaneRoe, "9876543210", "jane@x.in">>, phone_digits |-> 10,
                      email_has_at |-> TRUE],
                     [components |-> <<JaneRoe, "919876543210", "jane.x.in">>, phone_digits |-> 12,
                      email_has_at |-> FALSE],
                     [components |-> <<JohnDoe, "919876543210">>, phone_digits |-> 12,
                      email_has_at |-> FALSE]}
            IN
            [userId_ : UserIds,
             networkInfo_ : {NoDict, [iPV4_ |-> "10.0.0.1"]},
             systemProperties_ : {[systemProperties |-> <<Airtel>>], [systemProperties |-> <<Jio>>]},
             packageManagerInfo_ :
                {[userApplicationList_ |-> <<[packageName_ |-> amazon]>>],
                 [userApplicationList_ |-> <<>>]}]
    IN
    /\ rq_pc = "call"
    /\ rq_in \in DeviceData
    /\ rq_dfr = NoDict /\ rq_out = NoDict /\ user_evaluation = <<>>
    /\ emails = <<>> /\ pc = "idle" /\ idx = 0 /\ credit_info = <<>>
    /\ spending_info = NewSpendingInfo /\ now = 0
    /\ results = NoDict /\ prev_results = NoDict /\ run = 0
    /\ cl_emails = <<>> /\ cl_pc = "idle" /\ cl_idx = 0 /\ cl_results = NoDict
    /\ sc_pc = "idle" /\ sc_in = NoDict /\ sc_out = NoDict
    /\ processed_emails = <<>> /\ email_analysis_collection = <<>>
    /\ response = NoResponse /\ request = NoDict
    /\ mi_pc = "idle" /\ mi_in = <<>> /\ mi_out = <<>> /\ calls = <<>>

\* get_device_insights up to the answer of the device-data POST (lines 103-117
\* and 153-165)
PostDeviceData ==
    /\ rq_pc = "call"
    /\ IF rq_in.networkInfo_ = NoDict
       THEN /\ rq_dfr' = device_insights_failed("'networkInfo_'")
            /\ rq_pc' = "check"
       ELSE \E outcome \in HttpOutcomes :
               LET device_response == do_http_request(outcome)
                   failure == create_response(
                                 [status |-> "error",
                                  message |-> "failed to submit device data",
                                  error |-> "Internal Server Error",
                                  resp |-> "device_response"])
               IN IF device_response.exc # None
                  THEN /\ rq_dfr' = device_insights_failed(device_response.exc)
                       /\ rq_pc' = "check"
                  ELSE IF device_response.value.status = "success"
                  THEN /\ rq_dfr' = device_response.value
                       /\ rq_pc' = "fingerprint"
                  ELSE /\ rq_dfr' = IF failure.exc # None
                                    THEN device_insights_failed(failure.exc)
                                    ELSE failure.value
                       /\ rq_pc' = "check"
    /\ UNCHANGED <<rq_in, rq_out, user_evaluation, avars, cvars, svars, kvars, fvars>>

\* what get_device_insights returns once the device-fingerprint request has
\* answered (lines 118-152 and 166-177)
device_insights_reply(outcome) ==
    LET device_insights_response == do_http_request(outcome)
        reply == IF device_insights_response.exc # None
                 THEN device_insights_response
                 ELSE IF device_insights_response.value.status = "success"
                 THEN create_response([status |-> "success",
                                       message |-> "Succesfully done post!",
                                       resp |-> "device_insights_response"])
                 ELSE create_response([status |-> "error",
                                       message |-> "failed to get device insights!",
                                       error |-> "Internal Server Error",
                                       resp |-> "device_insights_response"])
    IN IF reply.exc # None THEN device_insights_failed(reply.exc) ELSE reply.value

\* get_device_insights from the device-fingerprint request to its return
\* (lines 118-152 and 166-177)
FetchDeviceFingerprint ==
    /\ rq_pc = "fingerprint"
    /\ \E outcome \in HttpOutcomes : rq_dfr' = device_insights_reply(outcome)
    /\ rq_pc' = "check"
    /\ UNCHANGED <<rq_in, rq_out, user_evaluation, avars, cvars, svars, kvars, fvars>>

\* C29: when the device-data POST and the device-fingerprint request both
\* succeed (HTTP 200), get_device_insights returns a response with status
\* success, the only status with which bureau_eye_submit goes on to the
\* alternate-data calls.
C29_DeviceInsightsSucceed ==
    [][(/\ rq_pc = "fingerprint"
        /\ rq_pc' = "check"
        /\ rq_dfr' = device_insights_reply([kind |-> "response", status_code |-> 200]))
       => rq_dfr'.status = "success"]_vars

\* bureau_eye_submit after get_device_insights returned (lines 20-99)
SubmitReturn ==
    LET
        \* what one alternate-data call and the risk model can answer
        AltDataAnswers == [1..Len(alt_data_requests) -> {"ok", "error"}]
        RiskAnswers == {"scored", "unscored", "HTTPError", "RequestException"}
    IN
    /\ rq_pc = "check"
    /\ IF rq_dfr.status # "success"
       THEN /\ rq_out' = LET reply == create_response(
                                [status |-> "error", error |-> "Internal Server Error",
                                 message |-> "Failed to fetch device insights",
                                 resp |-> "device_fingerprint_response"])
                         IN IF reply.exc # None THEN submit_failed(reply.exc)
                            ELSE reply.value
            /\ UNCHANGED user_evaluation
       ELSE \E answers \in AltDataAnswers, risk_answer \in RiskAnswers :
               LET r == submit_after_insights(rq_in, rq_dfr, answers, risk_answer)
               IN /\ rq_out' = r.out
                  /\ user_evaluation' = user_evaluation \o r.evaluation
    /\ rq_pc' = "returned"
    /\ UNCHANGED <<rq_in, rq_dfr, avars, cvars, svars, kvars, fvars>>

NextSubmit == PostDeviceData \/ FetchDeviceFingerprint \/ SubmitReturn

SpecSubmit == InitSubmit /\ [][NextSubmit]_vars

\* ====================================================== email-analysis requests
PROCESSING_ERROR == "Error processing the request."
\* the number of analysis records the model lets the requests create
MaxAnalyses == 2

\* the unique_id values that have stored emails, and one that has none
UniqueIds == {"u1", "u2"}
\* three card alerts about one merchant, 31 and 29 days apart
Subscription ==
    <<Email(Bank, {"spent"}, "Card XX1234", "Rs. N at", 250, "at AMAZON on 12-03-2024", Jan5),
      Email(Bank, {"spent"}, "Card XX1234", "Rs. N at", 250, "at AMAZON on 12-03-2024", Feb5),
      Email(Bank, {"spent"}, "Card XX1234", "Rs. N at", 250, "at AMAZON on 12-03-2024",
            DateTime(64))>>

\* collection.find({"unique_id": unique_id}).to_list(None)
find_emails(unique_id) ==
    IF unique_id \in DOMAIN processed_emails THEN processed_emails[unique_id] ELSE <<>>

\* collection.find_one({"analysis_id": analysis_id}): the index of the record, 0 for None
find_one(analysis_id) ==
    IF \E i \in 1..Len(email_analysis_collection) :
          email_analysis_collection[i].analysis_id = analysis_id
    THEN CHOOSE i \in 1..Len(email_analysis_collection) :
            email_analysis_collection[i].analysis_id = analysis_id
    ELSE 0

\* collection.update_one({"analysis_id": ...}, {"$set": changes}) on record i
update_one(i, changes) ==
    [email_analysis_collection EXCEPT
        ![i] = [k \in DOMAIN @ |-> IF k \in DOMAIN changes THEN changes[k] ELSE @[k]]]

Respond(code, body) == [code |-> code, body |-> body]

\* Requests arrive; the other components are not running
InitAnalysis ==
    LET
        \* what the mailbox ingestion stored under one unique_id: a card alert, a card alert
        \* and a food order, a payment confirmation, the three alerts of a subscription
        StoredBatches ==
            {Subscription,
             <<Email(Bank, {"spent"}, "Card XX1234", "Rs. N at", 250, "at AMAZON on 12-03-2024", Jan5)>>,
             <<Email(Bank, {"spent"}, "Card XX1234", "Rs. N at", 100, "", Feb5),
               Email("noreply@swiggy.in", {"order"}, "", "Amount: Rs. N", 100, "from Dominos.", Jan5)>>,
             <<Email(Bank, {"payment received"}, "Card XX1234", "Rs. N at", 250, "", Jan5)>>}
    IN
    /\ processed_emails \in [UniqueIds -> StoredBatches]
    /\ email_analysis_collection = <<>>
    /\ response = NoResponse /\ request = NoDict
    /\ mi_pc = "idle" /\ mi_in = <<>> /\ mi_out = <<>> /\ calls = <<>>
    /\ now = 0
    /\ emails = <<>> /\ pc = "idle" /\ idx = 0 /\ credit_info = <<>>
    /\ spending_info = NewSpendingInfo
    /\ results = NoDict /\ prev_results = NoDict /\ run = 0
    /\ cl_emails = <<>> /\ cl_pc = "idle" /\ cl_idx = 0 /\ cl_results = NoDict
    /\ sc_pc = "idle" /\ sc_in = NoDict /\ sc_out = NoDict
    /\ rq_pc = "idle" /\ rq_in = NoDict /\ rq_dfr = NoDict /\ rq_out = NoDict
    /\ user_evaluation = <<>>

\* what no email-analysis request touches
other_vars == <<prev_results, run, cvars, svars, rvars, fvars>>

\* what a request that does not analyze leaves alone
analyzer_vars == <<emails, pc, idx, credit_info, spending_info, results, now>>

\* the handler, back from analyze_emails, drops the analyzer and its locals
AnalyzerDropped ==
    /\ pc' = "idle" /\ emails' = <<>> /\ idx' = 0 /\ credit_info' = <<>>
    /\ spending_info' = NewSpendingInfo /\ results' = NoDict
    /\ request' = NoDict

\* create_analysis_from_stored_emails up to the call of analyze_emails (lines 26-62)
CreateAnalysisFromStoredEmails ==
    LET
        NoUniqueId == "u0"
        \* the record create_analysis_from_stored_emails inserts
        analysis_record(analysis_id, unique_id, stored_emails, t) ==
            [analysis_id |-> analysis_id, user_id |-> "user", unique_id |-> unique_id,
             status |-> "initialized", created_at |-> t, updated_at |-> t,
             email_count |-> Len(stored_emails), processed_count |-> 0, error |-> None,
             results |-> NoDict]
    IN
    /\ pc = "idle"
    /\ \E unique_id \in UniqueIds \cup {NoUniqueId}, t \in now..MaxClock :
          LET analysis_id == Len(email_analysis_collection) + 1
              stored_emails == find_emails(unique_id)
              record == analysis_record(analysis_id, unique_id, stored_emails, t)
          IN /\ now' = t
             /\ IF stored_emails = <<>>
                THEN /\ response' = Respond(404,
                           [message |-> "No emails found for the provided unique_id"])
                     /\ UNCHANGED <<email_analysis_collection, request, emails, pc, idx>>
                ELSE /\ Len(email_analysis_collection) < MaxAnalyses
                     /\ email_analysis_collection' =
                           Append(email_analysis_collection,
                                  [record EXCEPT !.status = "processing"])
                     /\ request' = [handler |-> "create_analysis_from_stored_emails",
                                    analysis_id |-> analysis_id]
                     /\ emails' = stored_emails /\ pc' = "call" /\ idx' = 1
                     /\ UNCHANGED response
    /\ UNCHANGED <<processed_emails, credit_info, spending_info, results, other_vars>>

\* create_analysis_from_stored_emails after analyze_emails returned or raised
\* (lines 64-105)
CreateAnalysisReturn ==
    LET
        ANALYSIS_COMPLETED == "Analysis completed successfully"
    IN
    /\ pc \in {"done", "raised"}
    /\ request # NoDict /\ request.handler = "create_analysis_from_stored_emails"
    /\ \E t \in now..MaxClock :
          LET i == find_one(request.analysis_id)
          IN /\ now' = t
             /\ IF pc = "done"
                THEN /\ email_analysis_collection' =
                           update_one(i, [status |-> "completed", updated_at |-> t,
                                          results |-> results,
                                          processed_count |-> Len(emails)])
                     /\ response' = Respond(200, [message |-> ANALYSIS_COMPLETED,
                                                  analysis_id |-> request.analysis_id,
                                                  status |-> "completed"])
                ELSE /\ email_analysis_collection' =
                           update_one(i, [status |-> "failed", error |-> results.error,
                                          updated_at |-> t])
                     /\ response' = Respond(500, [message |-> PROCESSING_ERROR])
    /\ AnalyzerDropped
    /\ UNCHANGED <<processed_emails, other_vars>>

\* create_analysis_from_request: EmailAnalysisRequest has no field user_id, so building
\* the record raises AttributeError; the update_one of the except clause finds no record
CreateAnalysisFromRequest ==
    /\ pc = "idle"
    /\ response' = Respond(500, [message |-> PROCESSING_ERROR])
    /\ UNCHANGED <<processed_emails, email_analysis_collection, request, analyzer_vars, other_vars>>

\* The mutant of ResumeAnalysis that also resumes an analysis that is completed.
ResumeAnalysis_also_completed ==
    /\ pc = "idle"
    /\ \E analysis_id \in 0..MaxAnalyses, t \in now..MaxClock :
          LET i == find_one(analysis_id)
              analysis == email_analysis_collection[i]
          IN /\ now' = t
             /\ IF i = 0
                THEN /\ response' = Respond(404, [message |-> "Analysis not found"])
                     /\ UNCHANGED <<email_analysis_collection, request, emails, pc, idx>>
                ELSE IF analysis.status = "processing"
                THEN /\ response' = Respond(400,
                           [message |-> "Analysis cannot be resumed in current state"])
                     /\ UNCHANGED <<email_analysis_collection, request, emails, pc, idx>>
                ELSE /\ email_analysis_collection' =
                           update_one(i, [status |-> "processing", updated_at |-> t])
                     /\ request' = [handler |-> "resume_analysis",
                                    analysis_id |-> analysis_id]
                     /\ emails' = find_emails(analysis.unique_id)
                     /\ pc' = "call" /\ idx' = 1
                     /\ UNCHANGED response
    /\ UNCHANGED <<processed_emails, credit_info, spending_info, results, other_vars>>

\* resume_analysis up to the call of analyze_emails (lines 186-214)
ResumeAnalysis ==
    /\ pc = "idle"
    /\ \E analysis_id \in 0..MaxAnalyses, t \in now..MaxClock :
          LET i == find_one(analysis_id)
              analysis == email_analysis_collection[i]
          IN /\ now' = t
             /\ IF i = 0
                THEN /\ response' = Respond(404, [message |-> "Analysis not found"])
                     /\ UNCHANGED <<email_analysis_collection, request, emails, pc, idx>>
                ELSE IF analysis.status \notin {"failed", "initialized"}
                THEN /\ response' = Respond(400,
                           [message |-> "Analysis cannot be resumed in current state"])
                     /\ UNCHANGED <<email_analysis_collection, request, emails, pc, idx>>
                ELSE /\ email_analysis_collection' =
                           update_one(i, [status |-> "processing", updated_at |-> t])
                     /\ request' = [handler |-> "resume_analysis",
                                    analysis_id |-> analysis_id]
                     /\ emails' = find_emails(analysis.unique_id)
                     /\ pc' = "call" /\ idx' = 1
                     /\ UNCHANGED response
    /\ UNCHANGED <<processed_emails, credit_info, spending_info, results, other_vars>>

\* resume_analysis after analyze_emails returned or raised (lines 216-236)
ResumeAnalysisReturn ==
    /\ pc \in {"done", "raised"}
    /\ request # NoDict /\ request.handler = "resume_analysis"
    /\ \E t \in now..MaxClock :
          LET i == find_one(request.analysis_id)
          IN /\ now' = t
             /\ IF pc = "done"
                THEN /\ email_analysis_collection' =
                           update_one(i, [status |-> "completed", results |-> results,
                                          updated_at |-> t])
                     /\ response' = Respond(200,
                           [message |-> "Analysis resumed successfully",
                            status |-> "completed"])
                ELSE /\ response' = Respond(500, [message |-> PROCESSING_ERROR])
                     /\ UNCHANGED email_analysis_collection
    /\ AnalyzerDropped
    /\ UNCHANGED <<processed_emails, other_vars>>

\* get_analysis_status; percentage is in hundredths
GetAnalysisStatus ==
    /\ pc = "idle"
    /\ \E analysis_id \in 0..MaxAnalyses :
          LET i == find_one(analysis_id)
              analysis == email_analysis_collection[i]
          IN response' =
                IF i = 0 THEN Respond(404, [message |-> "Analysis not found"])
                ELSE IF analysis.email_count = 0
                THEN Respond(500, [message |-> PROCESSING_ERROR])
                ELSE Respond(200,
                        [status |-> analysis.status,
                         progress |->
                            [total |-> analysis.email_count,
                             processed |-> analysis.processed_count,
                             percentage |-> (analysis.processed_count * 10000)
                                               \div analysis.email_count],
                         error |-> analysis.error])
    /\ UNCHANGED <<processed_emails, email_analysis_collection, request, analyzer_vars, other_vars>>

\* get_analysis_results
GetAnalysisResults ==
    /\ pc = "idle"
    /\ \E analysis_id \in 0..MaxAnalyses :
          LET i == find_one(analysis_id)
              analysis == email_analysis_collection[i]
          IN response' =
                IF i = 0 THEN Respond(404, [message |-> "Analysis not found"])
                ELSE IF analysis.status # "completed"
                THEN Respond(400, [message |-> "Analysis results not ready"])
                ELSE Respond(200, [results |-> analysis.results])
    /\ UNCHANGED <<processed_emails, email_analysis_collection, request, analyzer_vars, other_vars>>

\* the requests, and the steps of the analyze_emails call a request awaits
NextAnalysis ==
    \/ CreateAnalysisFromStoredEmails
    \/ CreateAnalysisReturn
    \/ CreateAnalysisFromRequest
    \/ ResumeAnalysis
    \/ ResumeAnalysisReturn
    \/ GetAnalysisStatus
    \/ GetAnalysisResults
    \/ AnalyzeEmailsCall
    \/ AnalyzeCreditCardsEmail
    \/ AnalyzeCreditCardsReturn
    \/ AnalyzeSpendingEmail
    \/ AnalyzeSpendingReturn
    \/ AnalyzeEmailsReturn

SpecAnalysis == InitAnalysis /\ [][NextAnalysis]_vars

\* C14 as stated: when an analysis fails, the caller only ever receives the generic
\* processing-error message; no create, resume, status or results request returns
\* the text of the exception.
C14_OnlyGenericErrorMessage ==
    /\ response.code = 500 => response.body = [message |-> PROCESSING_ERROR]
    /\ "error" \in DOMAIN response.body => response.body.error = None

\* ------------------------------------------------------------------- C26
\* C26 as stated: every analysis record that enters status processing, through a
\* create call or through resume_analysis, reaches completed or failed; no record
\* is in status processing once the call that set it has returned, that is,
\* whenever no request is inside analyze_emails.
C26_NoRecordStaysProcessing ==
    pc = "idle" =>
       \A i \in 1..Len(email_analysis_collection) :
          email_analysis_collection[i].status # "processing"

\* ------------------------------------------------------- the mailbox is re-stored
\* the number of messages the model lets the ingestion store under one unique_id
MaxStored == 1

\* GmailProcessor.store_message: the upsert of one processed email under its
\* message_id, which is its position among the emails of the unique_id; a message_id
\* that is not stored yet appends the email
StoreMessage ==
    /\ pc = "idle"
    /\ \E unique_id \in UniqueIds, email_data \in
             {Email(Bank, {"spent"}, "Card XX1234", "Rs. N at", 250, "at AMAZON on 12-03-2024", Jan5),
              Email(Bank, {"payment received"}, "Card XX1234", "Rs. N at", 250, "", Jan5)} :
          \E message_id \in 1..MaxStored :
             /\ message_id <= Len(processed_emails[unique_id]) + 1
             /\ processed_emails' =
                   [processed_emails EXCEPT ![unique_id] =
                       IF message_id <= Len(@) THEN [@ EXCEPT ![message_id] = email_data]
                       ELSE Append(@, email_data)]
    /\ UNCHANGED <<email_analysis_collection, response, request, analyzer_vars, other_vars>>

\* Requests arrive while the mailbox ingestion stores messages; a unique_id starts
\* with no stored email, with a card alert or with a payment confirmation
InitMailbox ==
    /\ processed_emails \in
          [UniqueIds ->
              {<<>>,
               <<Email(Bank, {"spent"}, "Card XX1234", "Rs. N at", 250, "at AMAZON on 12-03-2024", Jan5)>>,
               <<Email(Bank, {"payment received"}, "Card XX1234", "Rs. N at", 250, "", Jan5)>>}]
    /\ email_analysis_collection = <<>>
    /\ response = NoResponse /\ request = NoDict
    /\ mi_pc = "idle" /\ mi_in = <<>> /\ mi_out = <<>> /\ calls = <<>>
    /\ now = 0
    /\ emails = <<>> /\ pc = "idle" /\ idx = 0 /\ credit_info = <<>>
    /\ spending_info = NewSpendingInfo
    /\ results = NoDict /\ prev_results = NoDict /\ run = 0
    /\ cl_emails = <<>> /\ cl_pc = "idle" /\ cl_idx = 0 /\ cl_results = NoDict
    /\ sc_pc = "idle" /\ sc_in = NoDict /\ sc_out = NoDict
    /\ rq_pc = "idle" /\ rq_in = NoDict /\ rq_dfr = NoDict /\ rq_out = NoDict
    /\ user_evaluation = <<>>

NextMailbox ==
    \/ StoreMessage
    \/ NextAnalysis

SpecMailbox == InitMailbox /\ [][NextMailbox]_vars

\* ------------------------------------------------------------------- C27
\* C27 as stated: in every reachable state an analysis record with status completed
\* has its results stored and processed_count = email_count, and get_analysis_status
\* reports 100 percent progress for every completed analysis.
C27_CompletedIsFullyProcessed ==
    /\ \A i \in 1..Len(email_analysis_collection) :
          email_analysis_collection[i].status = "completed" =>
             /\ email_analysis_collection[i].results # NoDict
             /\ email_analysis_collection[i].processed_count
                   = email_analysis_collection[i].email_count
    /\ (response.code = 200 /\ "progress" \in DOMAIN response.body
           /\ response.body.status = "completed") =>
          response.body.progress.percentage = 10000

\* ------------------------------------------------------------------- C25
\* C25: resume_analysis is accepted only for an analysis whose status is failed or
\* initialized.  A resume request that starts an analysis names a record that was
\* failed or initialized; every other resume request answers 400 or 404 and
\* leaves every record as it was (status, results and timestamps) and creates none;
\* 400 is answered only when some record is processing or completed, and when no
\* record can be resumed the answer is never an acceptance.
C25_ResumeOnlyFailedOrInitialized ==
    [][ResumeAnalysis =>
          IF pc' = "call"
          THEN /\ request'.handler = "resume_analysis"
               /\ email_analysis_collection[find_one(request'.analysis_id)].status
                     \in {"failed", "initialized"}
               /\ Len(email_analysis_collection') = Len(email_analysis_collection)
          ELSE /\ email_analysis_collection' = email_analysis_collection
               /\ response'.code \in {400, 404}
               /\ response'.code = 400 =>
                     \E i \in 1..Len(email_analysis_collection) :
                        email_analysis_collection[i].status \in {"processing", "completed"}
               /\ pc' = "idle" /\ request' = request]_vars

\* a resume request was refused with 400 while one record is completed and the other
\* is processing
C25_Witness ==
    /\ response = Respond(400, [message |-> "Analysis cannot be resumed in current state"])
    /\ Len(email_analysis_collection) = 2
    /\ {email_analysis_collection[i].status : i \in 1..2} = {"processing", "completed"}
    /\ pc = "idle"

\* ================================================ _generate_merchant_insights
\* merchant_data after the first n transactions: merchant -> count, amount, dates,
\* in the order the merchants first appear
RECURSIVE merchant_data(_, _)
merchant_data(transactions, n) ==
    IF n = 0 THEN <<>>
    ELSE LET data == merchant_data(transactions, n - 1)
             trans == transactions[n]
             old == IF trans.merchant \in Keys(data) THEN Lookup(data, trans.merchant)
                    ELSE [key |-> trans.merchant, count |-> 0, amount |-> 0, dates |-> <<>>]
         IN Store(data, [old EXCEPT
                            !.count = @ + 1,
                            !.amount = @ + trans.amount,
                            !.dates = IF Truthy(trans.date) THEN Append(@, trans.date)
                                      ELSE @])

\* [(dates[i + 1] - dates[i]).days for i in range(len(dates) - 1)]
date_diffs(dates) == [i \in 1..(Len(dates) - 1) |-> dates[i + 1].day - dates[i].day]

RECURSIVE SumOf(_)
SumOf(s) == IF s = <<>> THEN 0 ELSE SumOf(SubSeq(s, 1, Len(s) - 1)) + s[Len(s)]

\* int(x) of the quotient num / den, den > 0: truncation towards zero
IntOf(num, den) == IF num >= 0 THEN num \div den ELSE -((-num) \div den)

\* The mutant of is_regular with a tolerance of 50 days.
is_regular_within_50(diffs) ==
    \A i \in 1..Len(diffs) : Abs(diffs[i] * Len(diffs) - SumOf(diffs)) <= 50 * Len(diffs)

\* all(abs(diff - avg_diff) <= 5 for diff in date_diffs), avg_diff = sum / len
is_regular(diffs) ==
    \A i \in 1..Len(diffs) : Abs(diffs[i] * Len(diffs) - SumOf(diffs)) <= 5 * Len(diffs)

\* the "Possible recurring payment" insights, in the order of merchant_data
RECURSIVE recurring_insights(_, _)
recurring_insights(data, n) ==
    IF n = 0 THEN <<>>
    ELSE recurring_insights(data, n - 1) \o
         (IF /\ data[n].count >= 3
             /\ data[n].dates # <<>>
             /\ is_regular(date_diffs(data[n].dates))
          THEN <<[text |-> "Possible recurring payment", merchant |-> data[n].key,
                  days |-> IntOf(SumOf(date_diffs(data[n].dates)),
                                 Len(date_diffs(data[n].dates)))]>>
          ELSE <<>>)

\* _generate_merchant_insights; any exception makes it return []
generate_merchant_insights(transactions) ==
    LET
        \* the merchants on which the recurring-payment loop divides by zero: three or more
        \* transactions of which exactly one has a date
        DividesByZero(data) ==
            \E i \in 1..Len(data) : data[i].count >= 3 /\ Len(data[i].dates) = 1
    IN
    LET data == merchant_data(transactions, Len(transactions))
        top_merchant == SortByCountDesc(data)[1]
    IN IF transactions = <<>> THEN <<>>
       ELSE IF DividesByZero(data) THEN <<>>
       ELSE <<[text |-> "Most frequent merchant", merchant |-> top_merchant.key,
               count |-> top_merchant.count, amount |-> top_merchant.amount]>>
            \o recurring_insights(data, Len(data))

\* the longest transaction list handed to _generate_merchant_insights
MaxTransactions == 4

\* _generate_merchant_insights is called; the other components are not running
InitMerchantInsights ==
    LET
        \* transactions of a subscription on 5 Jan, 5 Feb, 5 Mar (31 and 29 days apart), on
        \* two days around the tolerance, 29 and 90 days after 5 Mar and without date, and
        \* of a shop
        Transactions ==
            {[merchant |-> "NETFLIX", amount |-> 649, date |-> d] :
                d \in {DateTime(4), DateTime(35), DateTime(55), DateTime(56), DateTime(64),
                       DateTime(93), DateTime(154), NoDate}}
               \cup {[merchant |-> "AMAZON", amount |-> 250, date |-> d] : d \in {DateTime(4), NoDate}}
    IN
    /\ mi_in \in UNION {[1..n -> Transactions] : n \in 0..MaxTransactions}
    /\ mi_pc = "call" /\ mi_out = <<>> /\ calls = <<>>
    /\ emails = <<>> /\ pc = "idle" /\ idx = 0 /\ credit_info = <<>>
    /\ spending_info = NewSpendingInfo /\ now = 0
    /\ results = NoDict /\ prev_results = NoDict /\ run = 0
    /\ cl_emails = <<>> /\ cl_pc = "idle" /\ cl_idx = 0 /\ cl_results = NoDict
    /\ sc_pc = "idle" /\ sc_in = NoDict /\ sc_out = NoDict
    /\ rq_pc = "idle" /\ rq_in = NoDict /\ rq_dfr = NoDict /\ rq_out = NoDict
    /\ user_evaluation = <<>>
    /\ processed_emails = <<>> /\ email_analysis_collection = <<>>
    /\ response = NoResponse /\ request = NoDict

\* the call of _generate_merchant_insights
GenerateMerchantInsights ==
    /\ mi_pc = "call"
    /\ mi_out' = generate_merchant_insights(mi_in)
    /\ mi_pc' = "done"
    /\ UNCHANGED <<mi_in, calls, avars, cvars, svars, rvars, kvars>>

SpecMerchantInsights == InitMerchantInsights /\ [][GenerateMerchantInsights]_vars

\* ------------------------------------------------------------------- C18
\* the positions in mi_in of the transactions of merchant m
PositionsOf(m) == {i \in 1..Len(mi_in) : mi_in[i].merchant = m}

Netflix(d) == [merchant |-> "NETFLIX", amount |-> 649, date |-> DateTime(d)]

C19_RecurringInsightInResults ==
    (pc = "done" /\ emails = Subscription) =>
        /\ Len(results.spending_analysis.categories) = 1
        /\ results.spending_analysis.categories[1].merchants = <<[key |-> "AMAZON", count |-> 3]>>
        /\ \E i \in 1..Len(results.summary.insights) :
              results.summary.insights[i].text = "Possible recurring payment"

\* ==================================================== _update_category_metrics
\* the number of _update_category_metrics calls the model follows
MaxCalls == 6

\* analyze_spending has made its accumulators; the other components are not running
InitCategoryMetrics ==
    /\ spending_info = NewSpendingInfo
    /\ calls = <<>>
    /\ mi_pc = "idle" /\ mi_in = <<>> /\ mi_out = <<>>
    /\ emails = <<>> /\ pc = "idle" /\ idx = 0 /\ credit_info = <<>> /\ now = 0
    /\ results = NoDict /\ prev_results = NoDict /\ run = 0
    /\ cl_emails = <<>> /\ cl_pc = "idle" /\ cl_idx = 0 /\ cl_results = NoDict
    /\ sc_pc = "idle" /\ sc_in = NoDict /\ sc_out = NoDict
    /\ rq_pc = "idle" /\ rq_in = NoDict /\ rq_dfr = NoDict /\ rq_out = NoDict
    /\ user_evaluation = <<>>
    /\ processed_emails = <<>> /\ email_analysis_collection = <<>>
    /\ response = NoResponse /\ request = NoDict

\* one call of _update_category_metrics
UpdateCategoryMetrics ==
    LET
        \* the transactions of the calls: food orders on three days, one of them with its
        \* date already a string, and a purchase
        CategoryTransactions ==
            {[category |-> "food", amount |-> 100, merchant |-> "Dominos", date |-> DateTime(4)],
             [category |-> "food", amount |-> 250, merchant |-> "Dominos", date |-> DateTime(35)],
             [category |-> "food", amount |-> 100, merchant |-> "unknown", date |-> DateTime(64)],
             [category |-> "food", amount |-> 100, merchant |-> "Dominos", date |-> DateStr(35)],
             [category |-> "shopping", amount |-> 250, merchant |-> "AMAZON", date |-> DateTime(35)]}
    IN
    /\ Len(calls) < MaxCalls
    /\ \E transaction \in CategoryTransactions :
          /\ spending_info' =
                [spending_info EXCEPT
                    !.categories = update_category_metrics(transaction, @)]
          /\ calls' = Append(calls, transaction)
    /\ UNCHANGED <<emails, pc, idx, credit_info, now, results, prev_results, run>>
    /\ UNCHANGED <<mi_pc, mi_in, mi_out, cvars, svars, rvars, kvars>>

SpecCategoryMetrics == InitCategoryMetrics /\ [][UpdateCategoryMetrics]_vars

\* ------------------------------------------------------------------- C20
\* C20: after any sequence of _update_category_metrics calls whose transactions carry
\* timestamps, recent_transactions of a bucket holds at most 5 entries, the most
\* recent first, and they are the 5 most recent transactions of all those added to
\* the bucket: for every day, as many entries are later than it as there were calls
\* later than it, up to 5.
C20_RecentTransactions ==
    LET
        \* the calls made so far for a category
        CallsOf(category) == {i \in 1..Len(calls) : calls[i].category = category}
        Min(a, b) == IF a <= b THEN a ELSE b
    IN
    \A c \in 1..Len(spending_info.categories) :
       LET bucket == spending_info.categories[c]
           recent == bucket.recent_transactions
           C == CallsOf(bucket.key)
       IN (\A i \in C : calls[i].date.kind = "datetime") =>
             /\ Len(recent) = Min(5, Cardinality(C))
             /\ \A i, j \in 1..Len(recent) : i < j => recent[i].date.day >= recent[j].date.day
             /\ \A i \in 1..Len(recent) :
                   \E k \in C : /\ recent[i].date = strftime(calls[k].date)
                                /\ recent[i].amount = calls[k].amount
                                /\ recent[i].merchant = calls[k].merchant
             /\ \A d \in {calls[i].date.day : i \in C} \cup {-1} :
                   Cardinality({i \in 1..Len(recent) : recent[i].date.day > d})
                      = Min(5, Cardinality({i \in C : calls[i].date.day > d}))

\* six food orders were added, the first of them the oldest, and it was dropped
C20_Witness ==
    /\ Len(calls) = 6
    /\ \A i \in 1..6 : calls[i].category = "food" /\ calls[i].date.kind = "datetime"
    /\ calls[1].date.day = 4
    /\ \A i \in 2..6 : calls[i].date.day > 4
    /\ Len(spending_info.categories[1].recent_transactions) = 5
    /\ \A i \in 1..5 : spending_info.categories[1].recent_transactions[i].date.day > 4

\* ===================================================== _update_overall_metrics
\* one call of _update_overall_metrics on the overall accumulator of one
\* analyze_spending run; a call that raised ended the run
UpdateOverallMetrics ==
    LET
        \* the transactions of the calls: purchases in three months and one without a date
        OverallTransactions ==
            {[category |-> "shopping", amount |-> 100, merchant |-> "AMAZON", date |-> DateTime(4)],
             [category |-> "shopping", amount |-> 100, merchant |-> "AMAZON", date |-> DateTime(35)],
             [category |-> "shopping", amount |-> 250, merchant |-> "AMAZON", date |-> DateTime(35)],
             [category |-> "shopping", amount |-> 100, merchant |-> "AMAZON", date |-> DateStr(64)],
             [category |-> "shopping", amount |-> 100, merchant |-> "AMAZON", date |-> NoDate]}
    IN
    /\ Len(calls) < MaxCalls
    /\ IF calls = <<>> THEN TRUE ELSE ~ToDatetimeRaises(calls[Len(calls)].date)
    /\ \E transaction \in OverallTransactions :
          /\ spending_info' =
                [spending_info EXCEPT
                    !.overall = update_overall_metrics(transaction, @).overall]
          /\ calls' = Append(calls, transaction)
    /\ UNCHANGED <<emails, pc, idx, credit_info, now, results, prev_results, run>>
    /\ UNCHANGED <<mi_pc, mi_in, mi_out, cvars, svars, rvars, kvars>>

SpecOverallMetrics == InitCategoryMetrics /\ [][UpdateOverallMetrics]_vars

\* ------------------------------------------------------------------- C21
\* C21: after every _update_overall_metrics call, peak_spending_month is a month
\* whose running total is the maximum of all monthly_totals: every month seen so
\* far has a total, and none of them exceeds the total of peak_spending_month.
C21_PeakSpendingMonth ==
    LET overall == spending_info.overall
        seen == {MonthKey(calls[i].date) :
                    i \in {j \in 1..Len(calls) : ~ToDatetimeRaises(calls[j].date)}}
    IN /\ seen = DOMAIN overall.monthly_totals
       /\ seen # {} =>
             /\ overall.peak_spending_month \in seen
             /\ \A m \in seen :
                   overall.monthly_totals[overall.peak_spending_month]
                      >= overall.monthly_totals[m]

\* three months were seen and the peak is neither the first nor the last of them:
\* it moved to February and stayed there
C21_Witness ==
    /\ Len(calls) = 3
    /\ MonthKey(calls[1].date) = "2024-01"
    /\ MonthKey(calls[2].date) = "2024-02"
    /\ calls[3].date = DateStr(64)
    /\ spending_info.overall.peak_spending_month = "2024-02"
    /\ DOMAIN spending_info.overall.monthly_totals = {"2024-01", "2024-02", "2024-03"}

\* ------------------------------------------------------------------- C22
\* C22 as stated: the interval reported for a recurring payment is the mean of the
\* consecutive-date deltas rounded to the nearest whole day: twice the distance
\* between the reported days and the mean is at most one day.
C22_IntervalIsRoundedMean ==
    mi_pc = "done" =>
       \A i \in 1..Len(mi_out) :
          mi_out[i].text = "Possible recurring payment" =>
             LET P == PositionsOf(mi_out[i].merchant)
                 dated == {k \in P : Truthy(mi_in[k].date)}
                 first == CHOOSE k \in dated : \A j \in dated : k <= j
                 last == CHOOSE k \in dated : \A j \in dated : k >= j
                 n == Cardinality(dated) - 1
                 span == mi_in[last].date.day - mi_in[first].date.day
             IN /\ 2 * (n * mi_out[i].days - span) <= n
                /\ 2 * (span - n * mi_out[i].days) <= n

\* ------------------------------------------------------------------- C30
\* C30 as stated: recurring-payment detection does not depend on the order in
\* which the transactions are supplied: for every permutation of the supplied
\* list, _generate_merchant_insights reports the same merchants as possible
\* recurring payments, with the same interval.
C30_RecurringIndependentOfOrder ==
    LET Recurring(insights) ==
            {[merchant |-> insights[i].merchant, days |-> insights[i].days] :
                i \in {k \in 1..Len(insights) : insights[k].text = "Possible recurring payment"}}
        Orders == {p \in [1..Len(mi_in) -> 1..Len(mi_in)] :
                            \A i, j \in 1..Len(mi_in) : p[i] = p[j] => i = j}
    IN mi_pc = "done" =>
          \A p \in Orders :
             Recurring(generate_merchant_insights([i \in 1..Len(mi_in) |-> mi_in[p[i]]]))
                = Recurring(mi_out)

====
